---- MODULE Spec2Model ----
(***************************************************************************)
(* Model of the Linux backend of gilrs: the gamepad collection with its    *)
(* hotplug handling (Gilrs), the device session (Gamepad: open, event,     *)
(* axis_value, disconnect, Drop), the event iterator (EventIterator::next) *)
(* and the raw<->canonical tables of Mapping (map, map_rev).               *)
(*                                                                         *)
(* Collection ids are 0-based as in the code; the session with id i is     *)
(* gamepads[i + 1].                                                        *)
(***************************************************************************)
EXTENDS Integers, Sequences, FiniteSets, TLC

VARIABLES
    gamepads,   \* Gilrs.gamepads: Vec<MainGamepad>, one record per session
    monitor,    \* notifications pending in the udev monitor, oldest first
    unread,     \* unread[i + 1]: records waiting in the kernel for session i's handle
    handles,    \* the descriptors of the process: those open, those among them that
                \* Gamepad::open handed to a session, and whether a c::close was ever
                \* called on a descriptor that was not open
    cursor,     \* EventIterator.1, the scan position of the live iterator
    ret,        \* what the call of EventIterator::next returned, when the step taken
                \* was such a call; NoItem after any other step
    call,       \* history of that call: the notifications it handled, the sessions
                \* whose event() it called and the records they read
    lastev,     \* lastev[i + 1]: the last Connected or Disconnected event returned for
                \* session i, "none" when there was none (history)
    alive,      \* FALSE once the Gilrs value has been dropped
    fault,      \* TRUE once an unreachable!() has been executed
    applied     \* where a function is studied by itself: its name, the arguments it
                \* is applied to and, once it has been applied, its result

vars ==
    <<gamepads, monitor, unread, handles, cursor, ret, call, lastev, alive, fault, applied>>

----------------------------------------------------------------------------
(* Bounds of the model. *)

\* most notifications pending in the monitor at once
MaxPending == 2
\* the same, where device records are polled too
MaxPollPending == 2
\* most records waiting for all handles together
MaxUnread == 1
\* most records waiting for the handle of the one session that only decodes
MaxDecodeUnread == 2
\* most sessions the collection is let to grow to
MaxGamepads == 2
\* key:value fields after the name of a mapping line
MaxFields == 2
\* lines of a mapping dataset
MaxDbLines == 2
\* width of the dead zone of a calibration
MaxFlat == 2
\* descriptors that rejected opens may leave behind
MaxLeaked == 1
\* records a device holds when Gamepad::event is studied by itself
MaxRecords == 3
\* records waiting at each device when an iterator drains what is pending
MaxWaiting == 2

----------------------------------------------------------------------------
(* Constants of the evdev interface, gamepad.rs:634-682. *)

EV_KEY == 1
EV_ABS == 3
BTN_GAMEPAD == 304
BTN_SOUTH == 304
BTN_THUMBR == 318
BTN_EAST == 305
BTN_NORTH == 307
BTN_WEST == 308
BTN_TL == 310
BTN_TR == 311
BTN_TL2 == 312
BTN_TR2 == 313
BTN_SELECT == 314
BTN_START == 315
BTN_MODE == 316
BTN_THUMBL == 317
BTN_DPAD_UP == 544
BTN_DPAD_DOWN == 545
BTN_DPAD_LEFT == 546
BTN_DPAD_RIGHT == 547
ABS_X == 0
ABS_Y == 1
ABS_Z == 2
ABS_RX == 3
ABS_RY == 4
ABS_RZ == 5
ABS_HAT0X == 16
ABS_HAT0Y == 17
ABS_HAT1X == 18
ABS_HAT1Y == 19
ABS_HAT2X == 20
ABS_HAT2Y == 21

\* size of one native input_event record, the third argument of c::read
RecordSize == 24

\* Status (gamepad::Status)
Connected == "Connected"
Disconnected == "Disconnected"
NotObserved == "NotObserved"

\* devnode() of a device that has no device node
NoPath == ""

----------------------------------------------------------------------------
(* Integer conversions. *)

\* `x as i16` of a 32-bit signed x: the low 16 bits, read as two's complement
AsI16(x) ==
    LET m == x % 65536
    IN  IF m >= 32768 THEN m - 65536 ELSE m

\* u16::to_be on a little-endian host: the two bytes swapped
ToBe16(x) == (x % 256) * 256 + (x \div 256)

\* u32::to_be on a little-endian host: the four bytes reversed. The result
\* is kept as its four bytes, the most significant first.
ToBe32(x) == <<x % 256, (x \div 256) % 256, (x \div 65536) % 256, x \div 16777216>>

Abs(x) == IF x < 0 THEN -x ELSE x

----------------------------------------------------------------------------
(* f32 values. A value is the quotient n / d of two integers, kept as the   *)
(* pair, so that x/0 (an infinity) and 0/0 (NaN) stay what they are.        *)

F32(n, d) == [n |-> n, d |-> d]
FZero == F32(0, 1)
IsNaN(a) == a.n = 0 /\ a.d = 0
IsInf(a) == a.n # 0 /\ a.d = 0
Sgn(x) == IF x > 0 THEN 1 ELSE IF x < 0 THEN -1 ELSE 0

\* a == b on f32: NaN equals nothing, an infinity equals the infinity of its sign
FEq(a, b) ==
    IF IsNaN(a) \/ IsNaN(b) THEN FALSE
    ELSE IF IsInf(a) \/ IsInf(b)
         THEN IsInf(a) /\ IsInf(b) /\ Sgn(a.n) = Sgn(b.n)
         ELSE a.n * b.d = b.n * a.d

\* a != b on f32
FNe(a, b) == ~FEq(a, b)

\* a * -1.0
FNeg(a) == F32(-a.n, a.d)

----------------------------------------------------------------------------
(* Canonical events (gamepad::Event) and Option<Event>. *)

Ev(t, c, v) == [t |-> t, c |-> c, v |-> v]
ButtonPressed(b) == Ev("ButtonPressed", b, FZero)
ButtonReleased(b) == Ev("ButtonReleased", b, FZero)
AxisChanged(a, v) == Ev("AxisChanged", a, v)
EvConnected == Ev("Connected", 0, FZero)
EvDisconnected == Ev("Disconnected", 0, FZero)
None == Ev("None", 0, FZero)

\* Option<(usize, Event)>
Some(id, ev) == [id |-> id, ev |-> ev]
NoItem == [id |-> 0, ev |-> None]

----------------------------------------------------------------------------
(* Mapping (mapping.rs): two sparse tables raw code -> canonical code, kept *)
(* as functions whose domain is the set of raw codes that have an entry.    *)

\* Mapping::new
NewMapping == [axes |-> <<>>, btns |-> <<>>, name |-> ""]

Min(S) == CHOOSE x \in S : \A y \in S : x <= y

\* Mapping::map for one table: the entry of code, or code itself
MapIn(table, code) == IF code \in DOMAIN table THEN table[code] ELSE code

\* Mapping::map_rev for one table: VecMap::iter goes by ascending key, find
\* stops at the first entry whose value is code; no entry gives code itself
MapRevIn(table, code) ==
    LET hits == {k \in DOMAIN table : table[k] = code}
    IN  IF hits # {} THEN Min(hits) ELSE code

map(m, code, kind) ==
    IF kind = "Button" THEN MapIn(m.btns, code) ELSE MapIn(m.axes, code)

map_rev(m, code, kind) ==
    IF kind = "Button" THEN MapRevIn(m.btns, code) ELSE MapRevIn(m.axes, code)

----------------------------------------------------------------------------
(* Strings. A &str is a TLA+ string; Head, Tail, Len and \o work on it one  *)
(* character at a time.                                                     *)

\* the length in bytes of the UTF-8 encoding of character c, for the
\* characters the definitions studied here are written with
Utf8Len(c) == IF c = "é" THEN 2 ELSE 1

\* the k-th smallest of the places P of a string whose length is last: 0 for
\* k = 0 and last + 1 past the last of them
Place(P, k, last) ==
    IF k = 0 THEN 0
    ELSE IF k > Cardinality(P) THEN last + 1
    ELSE CHOOSE j \in P : Cardinality({x \in P : x < j}) = k - 1

\* the pieces of s between the places P of its separators
Pieces(s, P) ==
    [k \in 1..(Cardinality(P) + 1) |->
        SubSeq(s, Place(P, k - 1, Len(s)) + 1, Place(P, k, Len(s)) - 1)]

\* str::split(sep) collected: the pieces between the separators, always at
\* least one, the empty string for an empty s. (The text and the places are
\* bound as elements of one-element sets, which makes TLC compute them once.)
split(s, sep) ==
    CHOOSE pieces \in {Pieces(text, P) :
                         text \in {s}, P \in {{j \in 1..Len(s) : SubSeq(s, j, j) = sep}}} : TRUE

Digit ==
    ("0" :> 0) @@ ("1" :> 1) @@ ("2" :> 2) @@ ("3" :> 3) @@ ("4" :> 4)
        @@ ("5" :> 5) @@ ("6" :> 6) @@ ("7" :> 7) @@ ("8" :> 8) @@ ("9" :> 9)

\* the number no parse returns: Err(_) of str::parse
NoNumber == -1

\* the digits of an unsigned number, most significant first; NoNumber when a
\* character is no digit or the value passes max
RECURSIVE ParseDigits(_, _, _)
ParseDigits(s, acc, max) ==
    IF s = "" THEN acc
    ELSE IF Head(s) \notin DOMAIN Digit THEN NoNumber
    ELSE IF acc * 10 + Digit[Head(s)] > max THEN NoNumber
    ELSE CHOOSE n \in {ParseDigits(rest, sum, max) :
                          rest \in {Tail(s)}, sum \in {acc * 10 + Digit[Head(s)]}} : TRUE

\* str::parse for an unsigned integer type whose largest value is max: an
\* optional + and at least one digit
parse(s, max) ==
    CHOOSE n \in {IF digits = "" THEN NoNumber ELSE ParseDigits(digits, 0, max) :
                    digits \in {IF s # "" /\ Head(s) = "+" THEN Tail(s) ELSE s}} : TRUE

\* the largest index and the largest u16 the parses are modelled up to
MaxIndex == 999
MaxU16 == 65535

----------------------------------------------------------------------------
(* Mapping::parse_sdl_mapping (mapping.rs:38-307). *)

\* platform::NAME on this platform
PlatformName == "Linux"

\* Result<u16, ParseSdlMappingError>, and the panic of a string slice
Ok(v) == [kind |-> "Ok", val |-> v, err |-> ""]
Err(e) == [kind |-> "Err", val |-> 0, err |-> e]
Panic == [kind |-> "Panic", val |-> 0, err |-> ""]

\* whether val.split_at(1) panics: byte 1 is inside the first character
SplitAtPanics(val) == Utf8Len(Head(val)) > 1

\* Mapping::get_btn
get_btn(val, buttons) ==
    IF SplitAtPanics(val) THEN Panic
    ELSE IF Head(val) # "b" THEN Err("InvalidValue")
    ELSE IF parse(Tail(val), MaxIndex) = NoNumber THEN Err("InvalidValue")
    ELSE IF parse(Tail(val), MaxIndex) < Len(buttons)
         THEN Ok(buttons[parse(Tail(val), MaxIndex) + 1])
    ELSE Err("InvalidBtn")

\* str::parse for i32, as the direction of a hat value is parsed: a sign is
\* taken; ok tells whether the text is a number, n is the number
HatDir(s) ==
    IF s # "" /\ Head(s) = "-"
    THEN IF Tail(s) = "" \/ ParseDigits(Tail(s), 0, MaxIndex) = NoNumber
         THEN [ok |-> FALSE, n |-> 0]
         ELSE [ok |-> TRUE, n |-> 0 - ParseDigits(Tail(s), 0, MaxIndex)]
    ELSE [ok |-> parse(s, MaxIndex) # NoNumber, n |-> parse(s, MaxIndex)]

\* Mapping::get_axis
get_axis(val, axes) ==
    IF SplitAtPanics(val) THEN Panic
    ELSE IF Head(val) = "a"
    THEN IF parse(Tail(val), MaxIndex) = NoNumber THEN Err("InvalidValue")
         ELSE IF parse(Tail(val), MaxIndex) < Len(axes)
              THEN Ok(axes[parse(Tail(val), MaxIndex) + 1])
         ELSE Err("InvalidAxis")
    ELSE IF Head(val) = "h"
    THEN LET val_it == split(Tail(val), ".")
         IN  IF parse(val_it[1], MaxU16) # 0 THEN Err("InvalidValue")
             ELSE IF Len(val_it) < 2 \/ ~HatDir(val_it[2]).ok
                  THEN Err("InvalidValue")
             ELSE IF HatDir(val_it[2]).n \in {1, 4} THEN Ok(ABS_HAT0Y)
             ELSE IF HatDir(val_it[2]).n \in {2, 8} THEN Ok(ABS_HAT0X)
             ELSE Err("InvalidValue")
    ELSE Err("InvalidValue")

\* Mapping::get_btn_or_axis: the table is Axis or Button when the kind is Ok
get_btn_or_axis(val, buttons, axes) ==
    IF val = "" THEN [r |-> Err("InvalidValue"), table |-> ""]
    ELSE IF Utf8Len(Head(val)) = 1 /\ Head(val) \in {"a", "h"}
    THEN [r |-> get_axis(val, axes), table |-> "Axis"]
    ELSE IF Utf8Len(Head(val)) = 1 /\ Head(val) = "b"
    THEN [r |-> get_btn(val, buttons), table |-> "Button"]
    ELSE [r |-> Err("InvalidValue"), table |-> ""]

\* VecMap::insert
Insert(table, code, ncode) == (code :> ncode) @@ table

\* the result of an insert_* on mapping m: m afterwards, with the outcome
Inserted(m) == [kind |-> "Ok", m |-> m, err |-> ""]
NotInserted(m, r) == [kind |-> r.kind, m |-> m, err |-> r.err]

\* Mapping::insert_btn on the tables of m
insert_btn(s, btns, m, ncode) ==
    LET r == get_btn(s, btns)
    IN  IF r.kind = "Ok" THEN Inserted([m EXCEPT !.btns = Insert(@, r.val, ncode)])
        ELSE IF r.kind = "Err" /\ r.err = "InvalidBtn" THEN Inserted(m)
        ELSE NotInserted(m, r)

\* Mapping::insert_axis on the tables of m
insert_axis(s, axes, m, ncode) ==
    LET r == get_axis(s, axes)
    IN  IF r.kind = "Ok" THEN Inserted([m EXCEPT !.axes = Insert(@, r.val, ncode)])
        ELSE IF r.kind = "Err" /\ r.err = "InvalidAxis" THEN Inserted(m)
        ELSE NotInserted(m, r)

\* insert_btn_or_axis with the tables taken for one another
insert_btn_or_axis_crossed(s, btns, axes, m, ncode_btn, ncode_axis) ==
    LET g == get_btn_or_axis(s, btns, axes)
    IN  IF g.r.kind = "Ok" /\ g.table = "Button"
        THEN Inserted([m EXCEPT !.axes = Insert(@, g.r.val, ncode_btn)])
        ELSE IF g.r.kind = "Ok"
        THEN Inserted([m EXCEPT !.btns = Insert(@, g.r.val, ncode_axis)])
        ELSE IF g.r.kind = "Err" /\ g.r.err = "InvalidAxis" THEN Inserted(m)
        ELSE NotInserted(m, g.r)

\* Mapping::insert_btn_or_axis on the tables of m
insert_btn_or_axis(s, btns, axes, m, ncode_btn, ncode_axis) ==
    LET g == get_btn_or_axis(s, btns, axes)
    IN  IF g.r.kind = "Ok" /\ g.table = "Button"
        THEN Inserted([m EXCEPT !.btns = Insert(@, g.r.val, ncode_btn)])
        ELSE IF g.r.kind = "Ok"
        THEN Inserted([m EXCEPT !.axes = Insert(@, g.r.val, ncode_axis)])
        ELSE IF g.r.kind = "Err" /\ g.r.err = "InvalidAxis" THEN Inserted(m)
        ELSE NotInserted(m, g.r)

\* the keys of the match of parse_sdl_mapping with the canonical codes of
\* their arms: button keys, axis keys, and keys that take either
BtnKeys ==
    ("x" :> BTN_EAST) @@ ("a" :> BTN_SOUTH) @@ ("b" :> BTN_WEST) @@ ("y" :> BTN_NORTH)
        @@ ("back" :> BTN_SELECT) @@ ("guide" :> BTN_MODE) @@ ("start" :> BTN_START)
        @@ ("leftstick" :> BTN_THUMBL) @@ ("rightstick" :> BTN_THUMBR)

AxisKeys ==
    ("leftx" :> ABS_X) @@ ("lefty" :> ABS_Y) @@ ("rightx" :> ABS_RX) @@ ("righty" :> ABS_RY)

EitherKeys ==
    ("leftshoulder" :> <<BTN_TL, ABS_HAT1Y>>) @@ ("lefttrigger" :> <<BTN_TL2, ABS_HAT2Y>>)
        @@ ("rightshoulder" :> <<BTN_TR, ABS_HAT1X>>)
        @@ ("righttrigger" :> <<BTN_TR2, ABS_HAT2X>>)
        @@ ("dpleft" :> <<BTN_DPAD_LEFT, ABS_HAT0X>>)
        @@ ("dpright" :> <<BTN_DPAD_RIGHT, ABS_HAT0X>>)
        @@ ("dpup" :> <<BTN_DPAD_UP, ABS_HAT0Y>>)
        @@ ("dpdown" :> <<BTN_DPAD_DOWN, ABS_HAT0Y>>)

\* the body of the loop with a last arm that refuses the keys it does not know
ParsePair_unknown_key_refused(field, buttons, axes, m) ==
    LET pair == split(field, ":")
        key == pair[1]
    IN  IF Len(pair) < 2 THEN Inserted(m)
        ELSE IF pair[2] = "" THEN Inserted(m)
        ELSE IF key = "platform"
        THEN IF pair[2] # PlatformName
             THEN [kind |-> "Err", m |-> m, err |-> "NotTargetPlatform"]
             ELSE Inserted(m)
        ELSE IF key \in DOMAIN BtnKeys THEN insert_btn(pair[2], buttons, m, BtnKeys[key])
        ELSE IF key \in DOMAIN AxisKeys THEN insert_axis(pair[2], axes, m, AxisKeys[key])
        ELSE IF key \in DOMAIN EitherKeys
        THEN insert_btn_or_axis(pair[2], buttons, axes, m,
                                EitherKeys[key][1], EitherKeys[key][2])
        ELSE [kind |-> "Err", m |-> m, err |-> "InvalidPair"]

\* the body of the loop of parse_sdl_mapping for one field: kind is Ok when
\* the loop goes on with mapping m, else the error (or panic) it ends with
ParsePair(field, buttons, axes, m) ==
    LET pair == split(field, ":")
        key == pair[1]
    IN  IF Len(pair) < 2 THEN Inserted(m)
        ELSE IF pair[2] = "" THEN Inserted(m)
        ELSE IF key = "platform"
        THEN IF pair[2] # PlatformName
             THEN [kind |-> "Err", m |-> m, err |-> "NotTargetPlatform"]
             ELSE Inserted(m)
        ELSE IF key \in DOMAIN BtnKeys THEN insert_btn(pair[2], buttons, m, BtnKeys[key])
        ELSE IF key \in DOMAIN AxisKeys THEN insert_axis(pair[2], axes, m, AxisKeys[key])
        ELSE IF key \in DOMAIN EitherKeys
        THEN insert_btn_or_axis(pair[2], buttons, axes, m,
                                EitherKeys[key][1], EitherKeys[key][2])
        ELSE Inserted(m)

\* the loop of parse_sdl_mapping over the fields after the name
RECURSIVE ParsePairs(_, _, _, _)
ParsePairs(parts, buttons, axes, m) ==
    IF parts = <<>> THEN [kind |-> "Ok", mapping |-> m, err |-> ""]
    ELSE CHOOSE r \in
           {IF p.kind = "Ok" THEN ParsePairs(rest, buttons, axes, p.m)
            ELSE [kind |-> p.kind, mapping |-> NewMapping, err |-> p.err] :
              rest \in {Tail(parts)}, p \in {ParsePair(Head(parts), buttons, axes, m)}} : TRUE

\* parse_sdl_mapping with the first field taken for the name
parse_sdl_mapping_guid_as_name(line, buttons, axes) ==
    LET parts == split(line, ",")
    IN  IF Len(parts) < 2
        THEN [kind |-> "Err", mapping |-> NewMapping, err |-> "MissingName"]
        ELSE ParsePairs(Tail(Tail(parts)), buttons, axes,
                        [NewMapping EXCEPT !.name = parts[1]])

\* Mapping::parse_sdl_mapping: kind is Ok with the Mapping, Err with the
\* ParseSdlMappingError, or Panic
parse_sdl_mapping(line, buttons, axes) ==
    LET parts == split(line, ",")
    IN  IF Len(parts) < 2
        THEN [kind |-> "Err", mapping |-> NewMapping, err |-> "MissingName"]
        ELSE ParsePairs(Tail(Tail(parts)), buttons, axes,
                        [NewMapping EXCEPT !.name = parts[2]])

----------------------------------------------------------------------------
(* MappingDb (mapping.rs:387-418). An identity is the 16 bytes of a Uuid;   *)
(* the database is a function from identities to lines.                     *)

HexDigit ==
    Digit @@ ("a" :> 10) @@ ("b" :> 11) @@ ("c" :> 12) @@ ("d" :> 13) @@ ("e" :> 14)
        @@ ("f" :> 15) @@ ("A" :> 10) @@ ("B" :> 11) @@ ("C" :> 12) @@ ("D" :> 13)
        @@ ("E" :> 14) @@ ("F" :> 15)

\* the value no Uuid has: Err(_) of Uuid::parse_str
NoUuid == <<>>

\* the bytes of a run of hexadecimal digits, two digits a byte; NoUuid when a
\* character is no digit or a digit is left over
HexBytes(s) ==
    IF Len(s) % 2 = 1 \/ \E i \in 1..Len(s) : SubSeq(s, i, i) \notin DOMAIN HexDigit
    THEN NoUuid
    ELSE [k \in 1..(Len(s) \div 2) |->
            HexDigit[SubSeq(s, 2 * k - 1, 2 * k - 1)] * 16 + HexDigit[SubSeq(s, 2 * k, 2 * k)]]

\* Uuid::parse_str: 32 hexadecimal digits of either case, or the same in
\* groups of 8, 4, 4, 4 and 12 with hyphens between them
Uuid_parse_str(s) ==
    CHOOSE uuid \in
        {IF Len(text) = 32 THEN HexBytes(text)
         ELSE IF Len(text) = 36 /\ \A i \in {9, 14, 19, 24} : SubSeq(text, i, i) = "-"
         THEN HexBytes(SubSeq(text, 1, 8) \o SubSeq(text, 10, 13) \o SubSeq(text, 15, 18)
                          \o SubSeq(text, 20, 23) \o SubSeq(text, 25, 36))
         ELSE NoUuid : text \in {s}} : TRUE

\* a line without the carriage return it may end with
StripCr(l) ==
    IF l # "" /\ SubSeq(l, Len(l), Len(l)) = "\r" THEN SubSeq(l, 1, Len(l) - 1) ELSE l

\* str::lines: the pieces between line feeds, without the empty piece after
\* a last line feed, each without its carriage return
lines(s) ==
    LET pieces == split(s, "\n")
        kept == IF pieces[Len(pieces)] = "" THEN SubSeq(pieces, 1, Len(pieces) - 1)
                ELSE pieces
    IN  [i \in 1..Len(kept) |-> StripCr(kept[i])]

\* HashMap::new and HashMap::insert
EmptyDb == [u \in {} |-> ""]
DbInsert(hmap, uuid, line) == (uuid :> line) @@ hmap

\* the loop of MappingDb::insert_to over the lines ls
RECURSIVE InsertLines(_, _)
InsertLines(ls, hmap) ==
    IF ls = <<>> THEN hmap
    ELSE CHOOSE db \in
           {InsertLines(rest, h) :
              rest \in {Tail(ls)},
              h \in {IF Uuid_parse_str(split(Head(ls), ",")[1]) = NoUuid THEN hmap
                     ELSE DbInsert(hmap, Uuid_parse_str(split(Head(ls), ",")[1]), Head(ls))}} :
           TRUE

\* MappingDb::insert_to
insert_to(s, hmap) == InsertLines(lines(s), hmap)

\* env::var("SDL_GAMECONTROLLERCONFIG"): Err, or Ok with the text
NoVar == [ok |-> FALSE, text |-> ""]
Var(text) == [ok |-> TRUE, text |-> text]

\* MappingDb::new with the order of the two datasets exchanged
MappingDb_new_override_first(bundled, config) ==
    insert_to(bundled, IF config.ok THEN insert_to(config.text, EmptyDb) ELSE EmptyDb)

\* MappingDb::new, given the bundled text and the environment variable
MappingDb_new(bundled, config) ==
    IF config.ok THEN insert_to(config.text, insert_to(bundled, EmptyDb))
    ELSE insert_to(bundled, EmptyDb)

\* MappingDb::get: an Option<&String>
NoLine == [some |-> FALSE, line |-> ""]
MappingDb_get(db, uuid) ==
    IF uuid \in DOMAIN db THEN [some |-> TRUE, line |-> db[uuid]] ELSE NoLine

----------------------------------------------------------------------------
(* Button and Axis (gamepad.rs:602-624). A Button is named by the native    *)
(* code it is converted from; an Axis by the discriminant from_u16 computes.*)

DPadUp == BTN_DPAD_UP
DPadDown == BTN_DPAD_DOWN
DPadLeft == BTN_DPAD_LEFT
DPadRight == BTN_DPAD_RIGHT

LeftStickX == ABS_X
LeftStickY == ABS_Y
LeftZ == ABS_Z
RightStickX == ABS_RX
RightStickY == ABS_RY
RightZ == ABS_RZ
RightTrigger == ABS_HAT1X - 10
LeftTrigger == ABS_HAT1Y - 10
RightTrigger2 == ABS_HAT2X - 10
LeftTrigger2 == ABS_HAT2Y - 10

Axes == {LeftStickX, LeftStickY, LeftZ, RightStickX, RightStickY, RightZ,
         RightTrigger, LeftTrigger, RightTrigger2, LeftTrigger2}

NoCode == -1

\* Button::from_u16: Some(button) as the code, None as NoCode
ButtonFromU16(btn) ==
    IF btn >= BTN_SOUTH /\ btn <= BTN_THUMBR THEN btn
    ELSE IF btn >= BTN_DPAD_UP /\ btn <= BTN_DPAD_RIGHT THEN btn
    ELSE NoCode

\* Axis::from_u16
AxisFromU16(axis) ==
    IF axis >= ABS_X /\ axis <= ABS_RZ THEN axis
    ELSE IF axis >= ABS_HAT1X /\ axis <= ABS_HAT2Y THEN axis - 10
    ELSE NoCode

\* Axis::is_stick
is_stick(kind) == kind \in {LeftStickX, LeftStickY, RightStickX, RightStickY}

----------------------------------------------------------------------------
(* Axis calibration and normalisation. *)

AbsInfo(mn, mx, fl) == [minimum |-> mn, maximum |-> mx, flat |-> fl]

\* mem::zeroed::<AbsInfo>()
ZeroAbs == AbsInfo(0, 0, 0)

\* i32 division, which truncates toward zero
TruncDiv(a, b) == IF a >= 0 THEN a \div b ELSE -((-a) \div b)

\* Gamepad::axis_value
axis_value(axes_info, val, kind) ==
    LET recentre == is_stick(kind) /\ axes_info.minimum = 0
        maxh == TruncDiv(axes_info.maximum, 2)
        v1 == IF recentre THEN val - maxh ELSE val
        maximum == IF recentre THEN axes_info.maximum - maxh ELSE axes_info.maximum
        flat == axes_info.flat
        v2 == IF Abs(v1) < flat THEN 0
              ELSE IF v1 > 0 THEN v1 - flat
              ELSE v1 + flat
        q == F32(v2, maximum - flat)
    IN  IF kind \in {LeftStickY, RightStickY} /\ FNe(q, FZero) THEN FNeg(q) ELSE q

----------------------------------------------------------------------------
(* The hardware. A device model is what the ioctls of Gamepad::open report *)
(* for it: the input_id, the name, the key codes and the calibration of     *)
(* each absolute axis it has.                                               *)

InputId(b, v, p, ver) == [bustype |-> b, vendor |-> v, product |-> p, version |-> ver]

\* a pad that has no line in the mapping database; its axis 5 reports a
\* calibration that is all zero
PadA ==
    [iid |-> InputId(3, 1118, 654, 8224), name |-> "Pad A",
     keys |-> {304, 305, 307},
     abs |-> (0 :> AbsInfo(0, 4, 1)) @@ (1 :> AbsInfo(-2, 2, 0))
             @@ (5 :> AbsInfo(0, 0, 0))
             @@ (16 :> AbsInfo(-1, 1, 0)) @@ (17 :> AbsInfo(-1, 1, 0)),
     ff |-> TRUE]

\* a pad whose line in the mapping database renames a button and an axis
PadB ==
    [iid |-> InputId(3, 2341, 34952, 256), name |-> "Pad B",
     keys |-> {288, 289},
     abs |-> (2 :> AbsInfo(-2, 2, 1)),
     ff |-> FALSE]

\* a joystick-class device without the gamepad marker button
Stick ==
    [iid |-> InputId(3, 1133, 49685, 273), name |-> "Stick",
     keys |-> {288, 289},
     abs |-> (0 :> AbsInfo(0, 4, 0)),
     ff |-> FALSE]

DeviceModels == {PadA, PadB, Stick}

\* create_uuid without the to_be() of its fields
create_uuid_as_read(iid) ==
    << iid.bustype \div 16777216, (iid.bustype \div 65536) % 256,
       (iid.bustype \div 256) % 256, iid.bustype % 256,
       iid.vendor \div 256, iid.vendor % 256,
       0, 0,
       (iid.product \div 256) % 256, iid.product % 256, 0, 0,
       (iid.version \div 256) % 256, iid.version % 256, 0, 0 >>

\* create_uuid: the 16 bytes of Uuid::from_fields(bus, vendor, 0, [..]),
\* whose first three fields are stored most significant byte first
create_uuid(iid) ==
    LET bus == ToBe32(iid.bustype)
        vendor == ToBe16(iid.vendor)
        product == ToBe16(iid.product)
        version == ToBe16(iid.version)
    IN  << bus[1], bus[2], bus[3], bus[4],
           vendor \div 256, vendor % 256,
           0, 0,
           (product \div 256) % 256, product % 256, 0, 0,
           (version \div 256) % 256, version % 256, 0, 0 >>

\* Uuid::nil
NilUuid == <<0, 0, 0, 0, 0, 0, 0, 0, 0, 0, 0, 0, 0, 0, 0, 0>>

\* the bits set in a bit array, in ascending order: the buttons and axes
\* vectors of Gamepad::open
Ascending(S) ==
    [k \in 1..Cardinality(S) |-> CHOOSE x \in S : Cardinality({y \in S : y < x}) = k - 1]

\* mapping_db.get(uuid).and_then(parse_sdl_mapping(..).ok()).unwrap_or(Mapping::new()):
\* kind is Ok with the Mapping, or Panic when parse_sdl_mapping panics
ResolveMapping(mapping_db, uuid, buttons, axes) ==
    IF ~MappingDb_get(mapping_db, uuid).some THEN [kind |-> "Ok", mapping |-> NewMapping]
    ELSE IF parse_sdl_mapping(mapping_db[uuid], buttons, axes).kind = "Ok"
    THEN [kind |-> "Ok", mapping |-> parse_sdl_mapping(mapping_db[uuid], buttons, axes).mapping]
    ELSE IF parse_sdl_mapping(mapping_db[uuid], buttons, axes).kind = "Err"
    THEN [kind |-> "Ok", mapping |-> NewMapping]
    ELSE [kind |-> "Panic", mapping |-> NewMapping]

\* the database of the process: one line, for Pad B, and no override
BundledText == "03000000250900008888000000010000,Pad B (mapped),a:b0,leftx:a0"
BundledDb == MappingDb_new(BundledText, NoVar)

\* ioctl::eviocgabs(fd, code, &mut out): fills out when the device has the
\* axis and leaves it as it was (zeroed) when the ioctl fails
Eviocgabs(dev, code) == IF code \in DOMAIN dev.abs THEN dev.abs[code] ELSE ZeroAbs

----------------------------------------------------------------------------
(* Sessions. One record holds a MainGamepad and the platform Gamepad inside *)
(* it: the fields of struct Gamepad, then status, the cached state (the set *)
(* of pressed buttons, the values of the axes that were set) and the force- *)
(* feedback effect slots of MainGamepad. hat0 is a history field: for       *)
(* each hat axis, whether the last record read on it carried a positive     *)
(* value and was read while the stored previous value was 0.                *)

\* MainGamepad::from_inner_status: a fresh view around the platform Gamepad
from_inner_status(gamepad, status) ==
    [fd |-> gamepad.fd, axes_info |-> gamepad.axes_info,
     abs_dpad_prev_val |-> gamepad.abs_dpad_prev_val, mapping |-> gamepad.mapping,
     ff_supported |-> gamepad.ff_supported, devpath |-> gamepad.devpath,
     name |-> gamepad.name, uuid |-> gamepad.uuid,
     status |-> status, btns |-> {}, axes |-> <<>>, effects |-> 0,
     hat0 |-> <<FALSE, FALSE>>]

\* mem::zeroed::<AxesInfo>()
ZeroAxesInfo ==
    [x |-> ZeroAbs, y |-> ZeroAbs, z |-> ZeroAbs, rx |-> ZeroAbs, ry |-> ZeroAbs,
     rz |-> ZeroAbs, dpadx |-> ZeroAbs, dpady |-> ZeroAbs, left_tr |-> ZeroAbs,
     right_tr |-> ZeroAbs, left_tr2 |-> ZeroAbs, right_tr2 |-> ZeroAbs]

\* Gamepad::none
GamepadNone ==
    [fd |-> -3, axes_info |-> ZeroAxesInfo, abs_dpad_prev_val |-> <<0, 0>>,
     mapping |-> NewMapping, ff_supported |-> FALSE, devpath |-> "", name |-> "",
     uuid |-> NilUuid]

\* Gilrs.not_observed
not_observed == from_inner_status(GamepadNone, NotObserved)

\* a variant of Gilrs::gamepad that answers an id past the end with the last entry
gamepad_clamped(gps, id) ==
    IF id < Len(gps) THEN gps[id + 1]
    ELSE IF gps = <<>> THEN not_observed ELSE gps[Len(gps)]

\* Gilrs::gamepad on the collection gps: gamepads.get(id).unwrap_or(&not_observed)
gamepad(gps, id) == IF id < Len(gps) THEN gps[id + 1] ELSE not_observed

\* MainGamepad::axis_val: the cached value of the axis, 0.0 until one is set
axis_val(gp, axis) == IF axis \in DOMAIN gp.axes THEN gp.axes[axis] ELSE FZero

\* GamepadState::set_axis
set_axis(gp, axis, val) == [gp EXCEPT !.axes = (axis :> val) @@ @]

\* GamepadState::set_btn
set_btn(gp, btn, pressed) ==
    [gp EXCEPT !.btns = IF pressed THEN @ \cup {btn} ELSE @ \ {btn}]

\* no descriptor open
NoHandles == [open |-> {}, owned |-> {}, bad |-> FALSE]

\* the descriptor c::open returns: the lowest one that is not open
LowestFree(cl) == Min({fd \in 0..Cardinality(cl.open) : fd \notin cl.open})

\* c::open succeeding
COpen(cl) == [cl EXCEPT !.open = @ \cup {LowestFree(cl)}]

\* c::close(fd): closing a descriptor that is not open is the double close
Close(cl, fd) ==
    IF fd \in cl.open
    THEN [cl EXCEPT !.open = @ \ {fd}, !.owned = @ \ {fd}]
    ELSE [cl EXCEPT !.bad = TRUE]

\* the calibration table Gamepad::open reads through the reverse mapping
ReadAxesInfo(dev, mapping) ==
    [x |-> Eviocgabs(dev, map_rev(mapping, ABS_X, "Axis")),
     y |-> Eviocgabs(dev, map_rev(mapping, ABS_Y, "Axis")),
     z |-> Eviocgabs(dev, map_rev(mapping, ABS_Z, "Axis")),
     rx |-> Eviocgabs(dev, map_rev(mapping, ABS_RX, "Axis")),
     ry |-> Eviocgabs(dev, map_rev(mapping, ABS_RY, "Axis")),
     rz |-> Eviocgabs(dev, map_rev(mapping, ABS_RZ, "Axis")),
     dpadx |-> Eviocgabs(dev, map_rev(mapping, ABS_HAT0X, "Axis")),
     dpady |-> Eviocgabs(dev, map_rev(mapping, ABS_HAT0Y, "Axis")),
     right_tr |-> Eviocgabs(dev, map_rev(mapping, ABS_HAT1X, "Axis")),
     left_tr |-> Eviocgabs(dev, map_rev(mapping, ABS_HAT1Y, "Axis")),
     right_tr2 |-> Eviocgabs(dev, map_rev(mapping, ABS_HAT2X, "Axis")),
     left_tr2 |-> Eviocgabs(dev, map_rev(mapping, ABS_HAT2Y, "Axis"))]

\* Gamepad::open without the test of the marker button
open_with_unmarked(d, cl, resolved) ==
    LET fd == LowestFree(cl)
        opened == COpen(cl)
        uuid == create_uuid(d.dev.iid)
        mapping == resolved.mapping
        name == IF mapping.name = "" THEN d.dev.name ELSE mapping.name
        rejected(c) == [ok |-> FALSE, gamepad |-> GamepadNone, handles |-> c, panic |-> FALSE]
    IN  IF d.path = NoPath THEN rejected(cl)
        ELSE IF d.io = "open" THEN rejected(cl)
        ELSE IF d.io = "bits" THEN rejected(Close(opened, fd))
        ELSE IF d.io = "name" THEN rejected(opened)
        ELSE IF d.io = "id" THEN rejected(opened)
        ELSE IF resolved.kind = "Panic"
             THEN [ok |-> FALSE, gamepad |-> GamepadNone, handles |-> opened, panic |-> TRUE]
        ELSE [ok |-> TRUE,
              gamepad |-> [fd |-> fd,
                           axes_info |-> ReadAxesInfo(d.dev, mapping),
                           abs_dpad_prev_val |-> <<0, 0>>,
                           mapping |-> mapping,
                           ff_supported |-> d.dev.ff,
                           devpath |-> d.path,
                           name |-> name,
                           uuid |-> uuid],
              handles |-> [opened EXCEPT !.owned = @ \cup {fd}],
              panic |-> FALSE]

\* Gamepad::open for the device of notification (or enumeration entry) d,
\* with cl the descriptors of the process and resolved what the lookup of
\* its mapping gave. d.io names the first system call that fails, "ok" when
\* none does. The result is Option<Gamepad> as ok/gamepad, and the
\* descriptors after the call; panic tells that the call did not return but
\* panicked, with the descriptor it had opened.
open_with(d, cl, resolved) ==
    LET fd == LowestFree(cl)
        opened == COpen(cl)
        uuid == create_uuid(d.dev.iid)
        mapping == resolved.mapping
        name == IF mapping.name = "" THEN d.dev.name ELSE mapping.name
        rejected(c) == [ok |-> FALSE, gamepad |-> GamepadNone, handles |-> c, panic |-> FALSE]
    IN  IF d.path = NoPath THEN rejected(cl)
        ELSE IF d.io = "open" THEN rejected(cl)
        ELSE IF d.io = "bits" THEN rejected(Close(opened, fd))
        ELSE IF d.io = "name" THEN rejected(opened)
        ELSE IF d.io = "id" THEN rejected(opened)
        ELSE IF resolved.kind = "Panic"
             THEN [ok |-> FALSE, gamepad |-> GamepadNone, handles |-> opened, panic |-> TRUE]
        ELSE IF map_rev(mapping, BTN_GAMEPAD, "Button") \notin d.dev.keys
             THEN rejected(Close(opened, fd))
        ELSE [ok |-> TRUE,
              gamepad |-> [fd |-> fd,
                           axes_info |-> ReadAxesInfo(d.dev, mapping),
                           abs_dpad_prev_val |-> <<0, 0>>,
                           mapping |-> mapping,
                           ff_supported |-> d.dev.ff,
                           devpath |-> d.path,
                           name |-> name,
                           uuid |-> uuid],
              handles |-> [opened EXCEPT !.owned = @ \cup {fd}],
              panic |-> FALSE]

\* Gamepad::open with the mapping resolved in mapping_db from the Identity
\* and the button and axis vectors of the device
open_in(d, cl, mapping_db) ==
    CHOOSE o \in
        {open_with(d, cl, resolved) :
           resolved \in {ResolveMapping(mapping_db, create_uuid(d.dev.iid),
                                        Ascending(d.dev.keys), Ascending(DOMAIN d.dev.abs))}} :
        TRUE

\* Gamepad::open(dev, &self.mapping_db) of Gilrs
open(d, cl) == open_in(d, cl, BundledDb)

\* a variant of Gamepad::disconnect that leaves the fd field as it was
disconnect_keeping_fd(gp, cl) ==
    [gamepad |-> [gp EXCEPT !.devpath = ""],
     handles |-> IF gp.fd >= 0 THEN Close(cl, gp.fd) ELSE cl]

\* Gamepad::disconnect, on the session record and the descriptors
disconnect(gp, cl) ==
    [gamepad |-> [gp EXCEPT !.fd = -2, !.devpath = ""],
     handles |-> IF gp.fd >= 0 THEN Close(cl, gp.fd) ELSE cl]

\* Drop for Gamepad: the descriptors after the session is dropped
drop(gp, cl) == IF gp.fd >= 0 THEN Close(cl, gp.fd) ELSE cl

----------------------------------------------------------------------------
(* Gamepad::event, the decode step. *)

\* a native record as c::read delivers it: n is the byte count read returns
Record(n, type, code, value) == [n |-> n, type |-> type, code |-> code, value |-> value]

\* the calibration the match of Gamepad::event picks for an axis
AxisInfoFor(ai, axis) ==
    IF axis = LeftStickX THEN ai.x
    ELSE IF axis = LeftStickY THEN ai.y
    ELSE IF axis = LeftZ THEN ai.z
    ELSE IF axis = RightStickX THEN ai.rx
    ELSE IF axis = RightStickY THEN ai.ry
    ELSE IF axis = RightZ THEN ai.rz
    ELSE IF axis = LeftTrigger THEN ai.left_tr
    ELSE IF axis = LeftTrigger2 THEN ai.left_tr2
    ELSE IF axis = RightTrigger THEN ai.right_tr
    ELSE ai.right_tr2

\* the match on event.value of a hat record: prev is the stored previous
\* value of that hat axis, pos and neg the buttons of its two directions
HatEvent(value, prev, pos, neg) ==
    IF value = 0
    THEN IF prev > 0 THEN ButtonReleased(pos)
         ELSE IF prev < 0 THEN ButtonReleased(neg)
         ELSE None
    ELSE IF value > 0 THEN ButtonPressed(pos)
    ELSE ButtonPressed(neg)

\* what the hat arm stores as the previous value: event.value as i16
HatStore(value) == AsI16(value)

\* the body of the loop of Gamepad::event for one full record r: the event
\* (None when the record yields none) and the session afterwards
Decode(gp, r) ==
    IF r.type = EV_KEY
    THEN LET btn == ButtonFromU16(map(gp.mapping, r.code, "Button"))
         IN  [ev |-> IF btn = NoCode THEN None
                     ELSE IF r.value = 0 THEN ButtonReleased(btn)
                     ELSE IF r.value = 1 THEN ButtonPressed(btn)
                     ELSE None,
              gamepad |-> gp]
    ELSE IF r.type = EV_ABS
    THEN LET code == map(gp.mapping, r.code, "Axis")
         IN  IF code = ABS_HAT0Y
             THEN [ev |-> HatEvent(r.value, gp.abs_dpad_prev_val[2], DPadDown, DPadUp),
                   gamepad |-> [gp EXCEPT
                       !.abs_dpad_prev_val[2] = HatStore(r.value),
                       !.hat0[2] = (r.value > 0 /\ gp.abs_dpad_prev_val[2] = 0)]]
             ELSE IF code = ABS_HAT0X
             THEN [ev |-> HatEvent(r.value, gp.abs_dpad_prev_val[1], DPadRight, DPadLeft),
                   gamepad |-> [gp EXCEPT
                       !.abs_dpad_prev_val[1] = HatStore(r.value),
                       !.hat0[1] = (r.value > 0 /\ gp.abs_dpad_prev_val[1] = 0)]]
             ELSE LET axis == AxisFromU16(code)
                  IN  [ev |-> IF axis = NoCode THEN None
                              ELSE AxisChanged(axis,
                                       axis_value(AxisInfoFor(gp.axes_info, axis), r.value, axis)),
                       gamepad |-> gp]
    ELSE [ev |-> None, gamepad |-> gp]

\* one entry of the history of a call: record r read by session id, whose
\* stored hat values and hat0 were prev and hat0 before, gave event ev
Decoded(id, gp, r, ev) ==
    [id |-> id, rec |-> r, prev |-> gp.abs_dpad_prev_val, hat0 |-> gp.hat0, ev |-> ev]

\* a variant of Gamepad::event that returns after one record, whatever it
\* yields
event_of_one_record(id, gp, q, log) ==
    IF q = <<>>
    THEN [ev |-> None, gamepad |-> gp, q |-> q, log |-> log, fault |-> FALSE]
    ELSE IF Head(q).n # RecordSize
    THEN [ev |-> None, gamepad |-> gp, q |-> Tail(q), log |-> log, fault |-> TRUE]
    ELSE [ev |-> Decode(gp, Head(q)).ev, gamepad |-> Decode(gp, Head(q)).gamepad,
          q |-> Tail(q), log |-> Append(log, Decoded(id, gp, Head(q), Decode(gp, Head(q)).ev)),
          fault |-> FALSE]

\* Gamepad::event of session id: read records from q until one yields an
\* event, q is empty (read returns -1 or 0), or a read returns another byte
\* count than the record size (unreachable!). log collects what was read.
RECURSIVE event(_, _, _, _)
event(id, gp, q, log) ==
    IF q = <<>>
    THEN [ev |-> None, gamepad |-> gp, q |-> q, log |-> log, fault |-> FALSE]
    ELSE IF Head(q).n # RecordSize
    THEN [ev |-> None, gamepad |-> gp, q |-> Tail(q), log |-> log, fault |-> TRUE]
    ELSE CHOOSE r \in UNION
           {{IF d.ev = None
             THEN event(id, d.gamepad, rest, log2)
             ELSE [ev |-> d.ev, gamepad |-> d.gamepad, q |-> rest, log |-> log2,
                   fault |-> FALSE] :
               log2 \in {Append(log, Decoded(id, gp, Head(q), d.ev))}} :
              d \in {Decode(gp, Head(q))}, rest \in {Tail(q)}} : TRUE

----------------------------------------------------------------------------
(* Gilrs::handle_hotplug. *)

\* a notification of the monitor (or an entry of the initial enumeration):
\* joy is ID_INPUT_JOYSTICK = "1", path is devnode(), dev the device model
\* and io the first system call of Gamepad::open that fails on it
Note(joy, action, path, dev, io) ==
    [joy |-> joy, action |-> action, path |-> path, dev |-> dev, io |-> io]

\* a variant of is_eq_cstr_str that compares the lengths only
is_eq_len(l, r) == Len(l) = Len(r)

\* is_eq_cstr_str: byte-wise equality of the C string and the str
is_eq_cstr_str(l, r) == l = r

\* a variant of the position() of the add arm that takes the last such session
ReconnectLast(gps, uuid) ==
    LET hits == {i \in 1..Len(gps) :
                    gps[i].uuid = uuid /\ gps[i].status = Disconnected}
    IN  IF hits = {} THEN 0 ELSE CHOOSE i \in hits : \A j \in hits : j <= i

\* a variant of it that does not look at the status
ReconnectAnyStatus(gps, uuid) ==
    LET hits == {i \in 1..Len(gps) : gps[i].uuid = uuid}
    IN  IF hits = {} THEN 0 ELSE Min(hits)

\* the position() of the add arm: the first session with the identity of the
\* opened gamepad that is Disconnected, as a 1-based index, 0 for None
ReconnectPosition(gps, uuid) ==
    LET hits == {i \in 1..Len(gps) :
                    gps[i].uuid = uuid /\ gps[i].status = Disconnected}
    IN  IF hits = {} THEN 0 ELSE Min(hits)

\* the position() of the remove arm: the first connected session whose
\* devpath is devnode, as a 1-based index, 0 for None
RemovePosition(gps, devnode) ==
    LET hits == {i \in 1..Len(gps) :
                    is_eq_cstr_str(devnode, gps[i].devpath) /\ gps[i].status = Connected}
    IN  IF hits = {} THEN 0 ELSE Min(hits)

\* a variant of the remove arm that does not call disconnect()
RemovedKeepingHandle(gp, cl) ==
    [gamepad |-> [gp EXCEPT !.status = Disconnected, !.effects = 0], handles |-> cl]

\* the remove arm on the session it found: status, effect slots, disconnect()
Removed(gp, cl) ==
    disconnect([gp EXCEPT !.status = Disconnected, !.effects = 0], cl)

\* one entry of the history of a call: what handling notification n made of
\* the collection and the handles, and the item it returned (NoItem: none)
Handled(n, gps, cl, gps2, cl2, item) ==
    [note |-> n, before |-> gps, handlesBefore |-> cl,
     after |-> gps2, handlesAfter |-> cl2, ret |-> item]

\* Gilrs::handle_hotplug: the loop over the pending notifications mon
RECURSIVE handle_hotplug(_, _, _, _, _)
handle_hotplug(gps, unr, cl, mon, hot) ==
    IF mon = <<>>
    THEN [ret |-> NoItem, gamepads |-> gps, unread |-> unr, handles |-> cl,
          monitor |-> mon, hot |-> hot]
    ELSE
    LET n == Head(mon)
        skip(cl2) == handle_hotplug(gps, unr, cl2, Tail(mon),
                                    Append(hot, Handled(n, gps, cl, gps, cl2, NoItem)))
        done(gps2, unr2, cl2, item) ==
            [ret |-> item, gamepads |-> gps2, unread |-> unr2, handles |-> cl2,
             monitor |-> Tail(mon),
             hot |-> Append(hot, Handled(n, gps, cl, gps2, cl2, item))]
    IN  IF ~n.joy THEN skip(cl)
        ELSE IF n.action = "add"
        THEN CHOOSE r \in
               {LET id == ReconnectPosition(gps, o.gamepad.uuid)
                IN  IF ~o.ok THEN skip(o.handles)
                    ELSE IF id # 0
                    THEN done([gps EXCEPT ![id] = from_inner_status(o.gamepad, Connected)],
                              [unr EXCEPT ![id] = <<>>],
                              drop(gps[id], o.handles),
                              Some(id - 1, EvConnected))
                    ELSE done(Append(gps, from_inner_status(o.gamepad, Connected)),
                              Append(unr, <<>>),
                              o.handles,
                              Some(Len(gps), EvConnected)) :
                  o \in {open(n, cl)}} : TRUE
        ELSE IF n.action = "remove"
        THEN LET id == IF n.path = NoPath THEN 0 ELSE RemovePosition(gps, n.path)
             IN  IF id = 0 THEN skip(cl)
                 ELSE LET r == Removed(gps[id], cl)
                      IN  done([gps EXCEPT ![id] = r.gamepad],
                               [unr EXCEPT ![id] = <<>>],
                               r.handles,
                               Some(id - 1, EvDisconnected))
        ELSE skip(cl)

----------------------------------------------------------------------------
(* EventIterator::next. *)

\* a variant of the test that passes over no session
NeverSkipped(gp) == FALSE

\* the test that makes the scan pass over a session
Skipped(gp) == gp.status # Connected

\* the filter on axis events: the value differs from the cached one
AxisDiffers(gp, axis, val) == FNe(axis_val(gp, axis), val)

\* the loop of EventIterator::next from position cur on; called collects the
\* ids whose event() was called, dlog the records they read
RECURSIVE scan(_, _, _, _, _)
scan(gps, unr, cur, called, dlog) ==
    IF cur >= Len(gps)
    THEN [ret |-> NoItem, gamepads |-> gps, unread |-> unr, cursor |-> cur,
          called |-> called, dlog |-> dlog, fault |-> FALSE]
    ELSE IF Skipped(gps[cur + 1])
    THEN scan(gps, unr, cur + 1, called, dlog)
    ELSE CHOOSE r \in UNION
      {{LET out(gp, item, f) ==
                [ret |-> item, gamepads |-> [gps2 EXCEPT ![cur + 1] = gp], unread |-> unr2,
                 cursor |-> cur, called |-> called2, dlog |-> e.log, fault |-> f]
        IN  IF e.fault THEN out(e.gamepad, NoItem, TRUE)
            ELSE IF e.ev = None THEN scan(gps2, unr2, cur + 1, called2, e.log)
            ELSE IF e.ev.t = "ButtonPressed"
            THEN out(set_btn(e.gamepad, e.ev.c, TRUE), Some(cur, e.ev), FALSE)
            ELSE IF e.ev.t = "ButtonReleased"
            THEN out(set_btn(e.gamepad, e.ev.c, FALSE), Some(cur, e.ev), FALSE)
            ELSE IF e.ev.t = "AxisChanged"
            THEN IF AxisDiffers(e.gamepad, e.ev.c, e.ev.v)
                 THEN out(set_axis(e.gamepad, e.ev.c, e.ev.v), Some(cur, e.ev), FALSE)
                 ELSE scan(gps2, unr2, cur, called2, e.log)
            ELSE out(e.gamepad, NoItem, TRUE) :
          unr2 \in {[unr EXCEPT ![cur + 1] = e.q]},
          gps2 \in {[gps EXCEPT ![cur + 1] = e.gamepad]},
          called2 \in {called \cup {cur}}} :
         e \in {event(cur, gps[cur + 1], unr[cur + 1], dlog)}} : TRUE

\* the history of a call that has handled nothing and read nothing
NoCall == [hot |-> <<>>, called |-> {}, dlog |-> <<>>]

----------------------------------------------------------------------------
(* The environment: device nodes, notifications and records. *)

Paths == {"event0", "event1"}

\* the first failing system call of Gamepad::open
IoOutcomes == {"ok", "open", "bits", "name", "id"}

\* the notifications of the specification of the collection: two nodes that
\* carry the same model, a second model, removals, a device of another class
Notes ==
    {Note(TRUE, "add", "event0", PadA, "ok"), Note(TRUE, "add", "event1", PadA, "ok"),
     Note(TRUE, "add", "event1", PadB, "ok"),
     Note(TRUE, "remove", "event0", PadA, "ok"), Note(TRUE, "remove", "event1", PadA, "ok"),
     Note(FALSE, "add", "event0", PadA, "ok")}

\* whether handling n may append a session to the collection
MayAppend(n) == n.joy /\ n.action = "add" /\ n.path # NoPath /\ n.io = "ok"

\* how many of the notifications mon may each append a session
PendingAdds(mon) == Cardinality({i \in 1..Len(mon) : MayAppend(mon[i])})

\* the notifications where device records are polled too: the node of Pad A
\* goes and comes back, the node of Pad B goes
PollNotes ==
    {Note(TRUE, "remove", "event0", PadA, "ok"), Note(TRUE, "add", "event0", PadA, "ok"),
     Note(TRUE, "remove", "event1", PadA, "ok")}

\* the records polled there: a button press, a stick position outside and
\* one inside the dead zone, the rest position of the axis whose calibration
\* is zero; for Pad B a position of the axis its mapping renames
PollInputs(dev) ==
    IF dev = PadA
    THEN {Record(RecordSize, EV_KEY, 304, 1), Record(RecordSize, EV_ABS, 0, 4),
          Record(RecordSize, EV_ABS, 0, 2), Record(RecordSize, EV_ABS, 5, 0)}
    ELSE {Record(RecordSize, EV_ABS, 2, 2)}

\* the records of the session that only decodes: the hat axes with values of
\* both signs, small and beyond 16 bits, and a button
DecodeInputs(dev) ==
    {Record(RecordSize, EV_ABS, ABS_HAT0X, v) : v \in {0, 1, -1, 32768, 65536}}
        \cup {Record(RecordSize, EV_ABS, ABS_HAT0Y, v) : v \in {0, 1, 32768}}
        \cup {Record(RecordSize, EV_KEY, 304, 1)}

\* the records of a device whose reads can return fewer bytes than the code
\* asks for (an input_event of 16 bytes, as on a 32-bit kernel interface, or a
\* partial one), next to full records
FaultInputs(dev) ==
    {Record(RecordSize, EV_KEY, 304, 1), Record(RecordSize, EV_ABS, 0, 4),
     Record(16, EV_KEY, 304, 1), Record(8, EV_ABS, 0, 4)}

\* the notifications of the specification of rejections that open accepts or
\* that remove a session: the node of Pad A comes and goes
AcceptedNotes ==
    {Note(TRUE, "add", "event0", PadA, "ok"), Note(TRUE, "remove", "event0", PadA, "ok")}

\* the notifications handle_hotplug passes over there: each failure of open
\* (no node, c::open, the capability, name and identity queries), a device
\* without the marker button, and devices that are not joystick-class
RejectedNotes ==
    {Note(TRUE, "add", NoPath, PadA, "ok"), Note(TRUE, "add", "event1", PadA, "open"),
     Note(TRUE, "add", "event1", PadA, "bits"), Note(TRUE, "add", "event1", PadA, "name"),
     Note(TRUE, "add", "event1", PadA, "id"), Note(TRUE, "add", "event1", Stick, "ok"),
     Note(FALSE, "add", "event1", PadA, "ok"), Note(FALSE, "remove", "event0", PadA, "ok")}

\* whether handling n leaves a descriptor behind: open returns after its
\* name or identity query failed
Leaks(n) == n.joy /\ n.action = "add" /\ n.path # NoPath /\ n.io \in {"name", "id"}

\* the device model behind a session: the one with its identity
ModelOf(gp) == CHOOSE d \in DeviceModels : create_uuid(d.iid) = gp.uuid

RECURSIVE SumLen(_)
SumLen(seqs) == IF seqs = <<>> THEN 0 ELSE Len(Head(seqs)) + SumLen(Tail(seqs))

----------------------------------------------------------------------------
(* Construction. *)

\* the loop of Gilrs::new over the enumerated devices
RECURSIVE Enumerate(_, _, _)
Enumerate(devs, gps, cl) ==
    IF devs = <<>> THEN [gamepads |-> gps, handles |-> cl]
    ELSE CHOOSE r \in
           {IF o.ok
            THEN Enumerate(Tail(devs), Append(gps, from_inner_status(o.gamepad, Connected)),
                           o.handles)
            ELSE Enumerate(Tail(devs), gps, o.handles) :
              o \in {open(Head(devs), cl)}} : TRUE

\* what udev can enumerate at start: sequences of the entries, which are
\* joystick-class devices, on distinct nodes
Enumerations(entries) ==
    {s \in UNION {[1..k -> entries] : k \in 0..MaxGamepads} :
        \A i, j \in 1..Len(s) : i # j => s[i].path # s[j].path}

\* the state Gilrs::new returns when udev enumerates devs
New(devs) ==
    LET g == Enumerate(devs, <<>>, NoHandles)
    IN  /\ gamepads = g.gamepads
        /\ handles = g.handles
        /\ unread = [i \in 1..Len(g.gamepads) |-> <<>>]
        /\ monitor = <<>>
        /\ cursor = 0
        /\ ret = NoItem
        /\ call = NoCall
        /\ lastev = [i \in 1..Len(g.gamepads) |-> "none"]
        /\ alive = TRUE
        /\ fault = FALSE

\* no function is studied by itself
NoApplication == [fn |-> "", arg |-> <<>>, done |-> FALSE, res |-> <<>>]

Init ==
    /\ \E devs \in Enumerations({Note(TRUE, "add", p, d, "ok") :
                                    p \in Paths, d \in DeviceModels}) : New(devs)
    /\ applied = NoApplication

InitPoll ==
    /\ \E devs \in Enumerations({Note(TRUE, "add", "event0", PadA, "ok"),
                                 Note(TRUE, "add", "event1", PadB, "ok")}) : New(devs)
    /\ applied = NoApplication

InitDecode ==
    /\ New(<<Note(TRUE, "add", "event0", PadA, "ok")>>)
    /\ applied = NoApplication

----------------------------------------------------------------------------
(* Actions. *)

Running == alive /\ ~fault

\* udev queues a notification, one of notes, when fewer than max are pending;
\* one that may append a session only while the collection stays within room
\* sessions, or when it is sure to put a Disconnected session back
Notify(notes, max, room) ==
    /\ Running
    /\ Len(monitor) < max
    /\ \E n \in notes :
        /\ MayAppend(n) =>
              \/ Len(gamepads) + PendingAdds(monitor) < room
              \/ /\ PendingAdds(monitor) = 0
                 /\ ReconnectPosition(gamepads, create_uuid(n.dev.iid)) # 0
        /\ monitor' = Append(monitor, n)
    /\ ret' = NoItem
    /\ call' = NoCall
    /\ UNCHANGED <<gamepads, unread, handles, cursor, lastev, alive, fault, applied>>

\* udev queues a notification that handle_hotplug will pass over, one of
\* notes, when fewer than max are pending; one that leaves a descriptor
\* behind only while fewer than leaks are, or are going to be, left behind
NotifyRejected(notes, max, leaks) ==
    /\ Running
    /\ Len(monitor) < max
    /\ \E n \in notes :
        /\ Leaks(n) =>
              Cardinality(handles.open \ handles.owned)
                + Cardinality({i \in 1..Len(monitor) : Leaks(monitor[i])}) < leaks
        /\ monitor' = Append(monitor, n)
    /\ ret' = NoItem
    /\ call' = NoCall
    /\ UNCHANGED <<gamepads, unread, handles, cursor, lastev, alive, fault, applied>>

\* the device behind an open handle sends a record, one of inputs[its model],
\* when fewer than max are waiting
DeviceInput(inputs, max) ==
    /\ Running
    /\ SumLen(unread) < max
    /\ \E i \in 1..Len(gamepads) :
        /\ gamepads[i].fd >= 0
        /\ \E r \in inputs[ModelOf(gamepads[i])] :
            unread' = [unread EXCEPT ![i] = Append(@, r)]
    /\ ret' = NoItem
    /\ call' = NoCall
    /\ UNCHANGED <<gamepads, monitor, handles, cursor, lastev, alive, fault, applied>>

\* Gilrs::poll_events: a new iterator, at position 0
poll_events ==
    /\ Running
    /\ cursor # 0
    /\ cursor' = 0
    /\ ret' = NoItem
    /\ call' = NoCall
    /\ UNCHANGED <<gamepads, monitor, unread, handles, lastev, alive, fault, applied>>

\* the result of a call whose hotplug part h returned no item and whose
\* scan gave s
scanned(h, s) ==
    [ret |-> s.ret, gamepads |-> s.gamepads, unread |-> s.unread,
     handles |-> h.handles, monitor |-> h.monitor, cursor |-> s.cursor,
     call |-> [hot |-> h.hot, called |-> s.called, dlog |-> s.dlog], fault |-> s.fault]

\* a variant of EventIterator::next that scans the devices whatever the
\* hotplug part returned
scan_anyway(h, cur) == scanned(h, scan(h.gamepads, h.unread, cur, {}, <<>>))

\* EventIterator::next on the state given: the hotplug result h when it
\* holds an item, else the result of the scan that follows it
next_call(h, cur) ==
    IF h.ret # NoItem
    THEN [ret |-> h.ret, gamepads |-> h.gamepads, unread |-> h.unread,
          handles |-> h.handles, monitor |-> h.monitor, cursor |-> cur,
          call |-> [hot |-> h.hot, called |-> {}, dlog |-> <<>>], fault |-> FALSE]
    ELSE scanned(h, scan(h.gamepads, h.unread, cur, {}, <<>>))

\* EventIterator::next: one whole call
next ==
    /\ Running
    /\ \E r \in {next_call(handle_hotplug(gamepads, unread, handles, monitor, <<>>), cursor)} :
        /\ gamepads' = r.gamepads
        /\ unread' = r.unread
        /\ handles' = r.handles
        /\ monitor' = r.monitor
        /\ cursor' = r.cursor
        /\ ret' = r.ret
        /\ call' = r.call
        /\ fault' = r.fault
        /\ lastev' = IF r.ret.ev.t \notin {"Connected", "Disconnected"} THEN lastev
                     ELSE IF r.ret.id < Len(lastev)
                     THEN [lastev EXCEPT ![r.ret.id + 1] = r.ret.ev.t]
                     ELSE Append(lastev, r.ret.ev.t)
    /\ UNCHANGED <<alive, applied>>

\* the drop of the Gilrs value: every session of the Vec is dropped
RECURSIVE DropAll(_, _)
DropAll(gps, cl) ==
    IF gps = <<>> THEN cl ELSE DropAll(Tail(gps), drop(Head(gps), cl))

\* the Vec, the monitor and the iterator are gone afterwards
DropGilrs ==
    /\ Running
    /\ alive' = FALSE
    /\ handles' = DropAll(gamepads, handles)
    /\ gamepads' = <<>>
    /\ unread' = <<>>
    /\ lastev' = <<>>
    /\ monitor' = <<>>
    /\ cursor' = 0
    /\ ret' = NoItem
    /\ call' = NoCall
    /\ UNCHANGED <<fault, applied>>

----------------------------------------------------------------------------
(* Specifications. *)

\* the collection under hotplug: notifications, polling, teardown
Next == Notify(Notes, MaxPending, MaxGamepads) \/ poll_events \/ next \/ DropGilrs

Spec == Init /\ [][Next]_vars

\* polling with device records and hotplug together; the sessions are those
\* of the enumeration, which go and come back
NextPoll ==
    \/ Notify(PollNotes, MaxPollPending, 0)
    \/ DeviceInput([d \in DeviceModels |-> PollInputs(d)], MaxUnread)
    \/ poll_events
    \/ next

SpecPoll == InitPoll /\ [][NextPoll]_vars

\* one session that decodes the records of its device
NextDecode ==
    \/ DeviceInput([d \in DeviceModels |-> DecodeInputs(d)], MaxDecodeUnread)
    \/ poll_events
    \/ next

SpecDecode == InitDecode /\ [][NextDecode]_vars

\* polling where reads can return any byte count
NextFault ==
    \/ Notify(PollNotes, MaxPollPending, 0)
    \/ DeviceInput([d \in DeviceModels |-> FaultInputs(d)], MaxUnread)
    \/ poll_events
    \/ next

SpecFault == InitPoll /\ [][NextFault]_vars

\* the records that wait at a device when the iterator is made: a button
\* press, a stick position outside and one inside the dead zone
WaitingInputs(dev) ==
    IF dev = PadA
    THEN {Record(RecordSize, EV_KEY, 304, 1), Record(RecordSize, EV_ABS, 0, 4),
          Record(RecordSize, EV_ABS, 0, 2)}
    ELSE {Record(RecordSize, EV_ABS, 2, 2)}

\* a new iterator on a Gilrs whose monitor holds notifications and whose
\* devices hold records, none of which has been polled yet
InitDrain ==
    \E devs \in Enumerations({Note(TRUE, "add", "event0", PadA, "ok"),
                              Note(TRUE, "add", "event1", PadB, "ok")}) :
      \E g \in {Enumerate(devs, <<>>, NoHandles)} :
        /\ gamepads = g.gamepads
        /\ handles = g.handles
        /\ monitor \in UNION {[1..n -> PollNotes] : n \in 0..MaxPollPending}
        /\ unread \in {u \in [1..Len(devs) ->
                                  UNION {[1..n -> WaitingInputs(PadA) \cup WaitingInputs(PadB)] :
                                           n \in 0..MaxWaiting}] :
                          \A i \in 1..Len(devs) : \A k \in 1..Len(u[i]) :
                              u[i][k] \in WaitingInputs(devs[i].dev)}
        /\ cursor = 0
        /\ ret = NoItem
        /\ call = NoCall
        /\ lastev = [i \in 1..Len(g.gamepads) |-> "none"]
        /\ alive = TRUE
        /\ fault = FALSE
        /\ applied = NoApplication

\* nothing arrives: the only step is a call of next()
NextDrain == next

SpecDrain == InitDrain /\ [][NextDrain]_vars

\* the caller goes on calling next() while it returns an item
SpecDrainFair == SpecDrain /\ WF_vars(next)

\* hotplug where devices are rejected: one session at most, of Pad A, and
\* notifications that open rejects or that are not for joysticks
InitReject ==
    /\ \E devs \in {<<>>, <<Note(TRUE, "add", "event0", PadA, "ok")>>} : New(devs)
    /\ applied = NoApplication

NextReject ==
    \/ Notify(AcceptedNotes, MaxPending, 1)
    \/ NotifyRejected(RejectedNotes, MaxPending, MaxLeaked)
    \/ poll_events
    \/ next

SpecReject == InitReject /\ [][NextReject]_vars

----------------------------------------------------------------------------
(* Gamepad::event by itself: a session and the records its device holds,    *)
(* read by successive calls until one returns None.                         *)

\* full records of each kind the loop tells apart: a type that is neither
\* EV_KEY nor EV_ABS, a button pressed and auto-repeated (value 2), a button
\* code and an axis code that are no canonical code, a hat axis at rest and
\* pushed, a stick axis
EventRecords ==
    {Record(RecordSize, 0, 0, 0),
     Record(RecordSize, EV_KEY, BTN_SOUTH, 1), Record(RecordSize, EV_KEY, BTN_SOUTH, 2),
     Record(RecordSize, EV_KEY, 289, 1), Record(RecordSize, EV_ABS, 40, 1),
     Record(RecordSize, EV_ABS, ABS_HAT0X, 0), Record(RecordSize, EV_ABS, ABS_HAT0X, 1),
     Record(RecordSize, EV_ABS, ABS_X, 4)}

\* the session Gilrs holds for a device it has opened
SessionOf(dev) ==
    from_inner_status(open(Note(TRUE, "add", "event0", dev, "ok"), NoHandles).gamepad,
                      Connected)

\* res holds the session and the records not yet read, the events the calls
\* returned, each with the position of the record read last in its call, the
\* number of calls and the result of the last one
InitEvent ==
    /\ New(<<>>)
    /\ \E dev \in {PadA, PadB},
          q \in UNION {[1..n -> EventRecords] : n \in 0..MaxRecords} :
         applied = [fn |-> "Gamepad::event", arg |-> <<SessionOf(dev), q>>, done |-> FALSE,
                    res |-> [gamepad |-> SessionOf(dev), q |-> q, returned |-> <<>>,
                             calls |-> 0, last |-> None]]

\* one call of Gamepad::event(); the caller stops when it returns None
CallEvent ==
    /\ applied.fn = "Gamepad::event" /\ ~applied.done
    /\ \E e \in {event(0, applied.res.gamepad, applied.res.q, <<>>)} :
         applied' = [applied EXCEPT
            !.done = (e.ev = None),
            !.res = [gamepad |-> e.gamepad, q |-> e.q,
                     returned |-> IF e.ev = None THEN applied.res.returned
                                  ELSE Append(applied.res.returned,
                                              [ev |-> e.ev,
                                               at |-> Len(applied.arg[2]) - Len(e.q)]),
                     calls |-> applied.res.calls + 1, last |-> e.ev]]
    /\ UNCHANGED <<gamepads, monitor, unread, handles, cursor, ret, call, lastev, alive, fault>>

NextEvent == CallEvent

SpecEvent == InitEvent /\ [][NextEvent]_vars

----------------------------------------------------------------------------
(* parse_sdl_mapping by itself: the lines it is given and the devices whose  *)
(* button and axis lists it resolves indices in.                            *)

\* the first field of the lines, as the test of mapping.rs has it
ParseGuid == "03000000260900008888000000010000"

\* fields after the name: well-formed pairs of every kind of key, pairs that
\* name an index the device lacks, malformed values, platform fields and
\* fields that are no pair
ParseFields ==
    {"a:b0", "b:b0", "a:b1", "b:b1", "y:b9", "a:x0", "a:", "x:é0",
     "leftx:a0", "leftx:a1", "lefty:a0", "leftx:a9", "leftx:b0",
     "leftshoulder:b1", "leftshoulder:a1", "leftshoulder:b9", "leftshoulder:a9",
     "dpleft:h0.8", "dpup:h0.1", "dpleft:h1.8", "dpleft:h0.3", "dpleft:h0",
     "platform:Linux", "platform:Windows", "platform:", "bogus", "",
     "misc:b0", "misc:é0"}

ParseDevices ==
    {[buttons |-> <<288, 289>>, axes |-> <<ABS_Z, ABS_RZ>>],
     [buttons |-> <<BTN_SOUTH>>, axes |-> <<ABS_X>>]}

\* the fields each preceded by the comma that separates it from the name
RECURSIVE Commas(_)
Commas(fs) == IF fs = <<>> THEN "" ELSE "," \o Head(fs) \o Commas(Tail(fs))

ParseLines ==
    {"", ParseGuid}
      \cup {ParseGuid \o ",Pad" \o Commas(fs) :
               fs \in UNION {[1..n -> ParseFields] : n \in 0..MaxFields}}

\* the line and the lists of the test of mapping.rs
TEST_STR ==
    "03000000260900008888000000010000,GameCube {WiseGroup USB box},a:b0,b:b2,y:b3,x:b1,start:b7,rightshoulder:b6,dpup:h0.1,dpleft:h0.8,dpdown:h0.4,dpright:h0.2,leftx:a0,lefty:a1,rightx:a2,righty:a3,lefttrigger:a4,righttrigger:a5,"

BUTTONS == [i \in 1..12 |-> i - 1]

AXES == [i \in 1..8 |-> i - 1]

\* the calls: every line on every device, and the call of the test
ParseCalls ==
    {<<line, dev.buttons, dev.axes>> : line \in ParseLines, dev \in ParseDevices}
      \cup {<<TEST_STR, BUTTONS, AXES>>}

InitParse ==
    /\ New(<<>>)
    /\ \E c \in ParseCalls :
         applied = [fn |-> "parse_sdl_mapping", arg |-> c, done |-> FALSE, res |-> <<>>]

\* the call Mapping::parse_sdl_mapping(line, buttons, axes)
ParseLine ==
    /\ applied.fn = "parse_sdl_mapping" /\ ~applied.done
    /\ applied' = [applied EXCEPT !.done = TRUE,
                      !.res = parse_sdl_mapping(applied.arg[1], applied.arg[2], applied.arg[3])]
    /\ UNCHANGED <<gamepads, monitor, unread, handles, cursor, ret, call, lastev, alive, fault>>

NextParse == ParseLine

SpecParse == InitParse /\ [][NextParse]_vars

----------------------------------------------------------------------------
(* MappingDb::new by itself: the bundled dataset and the override it is     *)
(* built from.                                                              *)

\* lines of the datasets: three texts of the identity of Pad B (one with
\* hyphens), the identity of the test of create_uuid in capitals, and a line
\* whose first field is no identity
DbLines ==
    {"03000000250900008888000000010000,Pad B (mapped),a:b0,leftx:a0",
     "03000000250900008888000000010000,Pad B (override),a:b1",
     "03000000-2509-0000-8888-000000010000,Pad B (hyphens),b:b0",
     "030000005E0400008E02000020200000,X pad,a:b0",
     "xinput,XInput Controller,a:b0"}

\* the lines each followed by a line feed, but the last
RECURSIVE Unlines(_)
Unlines(ls) ==
    IF ls = <<>> THEN ""
    ELSE IF Len(ls) = 1 THEN Head(ls)
    ELSE Head(ls) \o "\n" \o Unlines(Tail(ls))

Datasets == {Unlines(ls) : ls \in UNION {[1..n -> DbLines] : n \in 0..MaxDbLines}}

InitDb ==
    /\ New(<<>>)
    /\ \E bundled \in Datasets, config \in {NoVar} \cup {Var(t) : t \in Datasets} :
         applied = [fn |-> "MappingDb::new", arg |-> <<bundled, config>>,
                    done |-> FALSE, res |-> <<>>]

\* the call MappingDb::new()
BuildDb ==
    /\ applied.fn = "MappingDb::new" /\ ~applied.done
    /\ applied' = [applied EXCEPT !.done = TRUE,
                      !.res = MappingDb_new(applied.arg[1], applied.arg[2])]
    /\ UNCHANGED <<gamepads, monitor, unread, handles, cursor, ret, call, lastev, alive, fault>>

NextDb == BuildDb

SpecDb == InitDb /\ [][NextDb]_vars

----------------------------------------------------------------------------
(* axis_value by itself: the calibrations, raw values and axis kinds it is  *)
(* given.                                                                   *)

\* the ranges (minimum, maximum) EVIOCGABS reports: ranges that start at 0,
\* an axis that reports none, and signed ranges, the one of a 16-bit device
\* among them
Ranges == {<<0, 0>>, <<0, 4>>, <<0, 5>>, <<0, 255>>, <<-1, 1>>, <<-2, 2>>, <<-32768, 32767>>}

\* calibrations: each range with a dead zone of every width up to MaxFlat
Calibrations == {AbsInfo(r[1], r[2], fl) : r \in Ranges, fl \in 0..MaxFlat}

RawValues == {-32768, 255, 32767} \cup (-3..5)

InitAxis ==
    /\ New(<<>>)
    /\ \E info \in Calibrations, val \in RawValues, kind \in Axes :
         applied = [fn |-> "axis_value", arg |-> <<info, val, kind>>,
                    done |-> FALSE, res |-> <<>>]

\* the call Gamepad::axis_value(axes_info, val, kind)
Normalise ==
    /\ applied.fn = "axis_value" /\ ~applied.done
    /\ applied' = [applied EXCEPT !.done = TRUE,
                      !.res = axis_value(applied.arg[1], applied.arg[2], applied.arg[3])]
    /\ UNCHANGED <<gamepads, monitor, unread, handles, cursor, ret, call, lastev, alive, fault>>

NextAxis == Normalise

SpecAxis == InitAxis /\ [][NextAxis]_vars

----------------------------------------------------------------------------
(* create_uuid by itself: the input_id values it is given. *)

\* values of a 16-bit field of input_id: the ends of the range, the values
\* of the test of create_uuid, and values of one byte and of two
FieldValues == {0, 3, 654, 1118, 8224, 65535}

InputIds ==
    {InputId(b, v, p, ver) : b \in FieldValues, v \in FieldValues,
                             p \in FieldValues, ver \in FieldValues}

InitUuid ==
    /\ New(<<>>)
    /\ \E iid \in InputIds :
         applied = [fn |-> "create_uuid", arg |-> <<iid>>, done |-> FALSE, res |-> <<>>]

\* the call create_uuid(iid)
CreateUuid ==
    /\ applied.fn = "create_uuid" /\ ~applied.done
    /\ applied' = [applied EXCEPT !.done = TRUE, !.res = create_uuid(applied.arg[1])]
    /\ UNCHANGED <<gamepads, monitor, unread, handles, cursor, ret, call, lastev, alive, fault>>

NextUuid == CreateUuid

SpecUuid == InitUuid /\ [][NextUuid]_vars

----------------------------------------------------------------------------
(* Gamepad::open by itself: the device it is given and the database its     *)
(* mapping is looked up in.                                                 *)

\* the Identity of each device model as a mapping line spells it
GuidTexts ==
    {"030000005e0400008e02000020200000", "03000000250900008888000000010000",
     "030000006d04000015c2000011010000"}

\* what follows the Identity in a line: definitions that parse (one of them
\* without a name), one for each error a line of these devices can give, and
\* one whose value starts with a character of two bytes
Definitions ==
    {",Mapped,a:b0,leftx:a0", ",Mapped,a:b1", ",,a:b0",
     ",Foreign,a:b0,platform:Windows", ",Bad,a:x0", ",Short,leftshoulder:b9", "",
     ",Accent,a:é0"}

OpenLines == {g \o def : g \in GuidTexts, def \in Definitions}

InitOpen ==
    /\ New(<<>>)
    /\ \E dev \in DeviceModels, path \in {"event0", NoPath}, io \in IoOutcomes,
          bundled \in {"", BundledText}, config \in {NoVar} \cup {Var(l) : l \in OpenLines} :
         applied = [fn |-> "Gamepad::open",
                    arg |-> <<Note(TRUE, "add", path, dev, io), bundled, config>>,
                    done |-> FALSE, res |-> <<>>]

\* the call Gamepad::open(dev, mapping_db) in a process without descriptors
OpenDevice ==
    /\ applied.fn = "Gamepad::open" /\ ~applied.done
    /\ applied' = [applied EXCEPT !.done = TRUE,
                      !.res = open_in(applied.arg[1], NoHandles,
                                      MappingDb_new(applied.arg[2], applied.arg[3]))]
    /\ UNCHANGED <<gamepads, monitor, unread, handles, cursor, ret, call, lastev, alive, fault>>

NextOpen == OpenDevice

SpecOpen == InitOpen /\ [][NextOpen]_vars

----------------------------------------------------------------------------
(* Properties of the collection under hotplug (Spec). In the history of a   *)
(* call, each entry of call.hot holds one notification with the collection  *)
(* and the descriptors before and after it was handled.                     *)

\* the sessions of gps that are Disconnected and have the identity of dev
DisconnectedWith(gps, dev) ==
    {i \in 1..Len(gps) :
        gps[i].status = Disconnected /\ gps[i].uuid = create_uuid(dev.iid)}

\* the entry h of the history is an add notification whose device was opened
Opened(h) ==
    h.note.joy /\ h.note.action = "add" /\ open(h.note, h.handlesBefore).ok

\* C1: the collection never shrinks and is never renumbered while the Gilrs
\* value lives: no step makes it shorter or changes the identity stored at an
\* index, and a step that returns a Disconnected event changes, in the one
\* entry it names, nothing but the status, the handle marker, the device path
\* and the effect slots, and closes that entry's descriptor and no other.
C1_CollectionIsAppendOnly ==
    [][alive' =>
        /\ Len(gamepads') >= Len(gamepads)
        /\ \A i \in 1..Len(gamepads) : gamepads'[i].uuid = gamepads[i].uuid
        /\ ret'.ev = EvDisconnected =>
              /\ ret'.id + 1 \in 1..Len(gamepads)
              /\ gamepads' = [gamepads EXCEPT ![ret'.id + 1] =
                                 [@ EXCEPT !.status = Disconnected, !.fd = -2,
                                           !.devpath = "", !.effects = 0]]
              /\ gamepads[ret'.id + 1].status = Connected
              /\ handles'.open = handles.open \ {gamepads[ret'.id + 1].fd}
              /\ gamepads[ret'.id + 1].fd \in handles.open]_vars

\* C1 case: the first of two sessions has just been disconnected and the
\* second is still there, connected, at its index
C1_Witness ==
    /\ ret = Some(0, EvDisconnected)
    /\ Len(gamepads) = 2
    /\ gamepads[1].status = Disconnected
    /\ gamepads[2].status = Connected

\* C2 as stated: whenever an add notification opens a device, every index i
\* whose session is Disconnected and has the identity of that device is the
\* index the Connected event is returned for, nothing is appended and the
\* session at i becomes Connected.
C2_ReconnectReusesItsIndex ==
    \A k \in DOMAIN call.hot :
        Opened(call.hot[k]) =>
            \A i \in DisconnectedWith(call.hot[k].before, call.hot[k].note.dev) :
                /\ call.hot[k].ret = Some(i - 1, EvConnected)
                /\ Len(call.hot[k].after) = Len(call.hot[k].before)
                /\ call.hot[k].after[i].status = Connected

\* C2: whenever an add notification opens a device while some session is
\* Disconnected and has the identity of that device, the Connected event is
\* returned for the lowest index of such a session (so for i when no lower
\* index holds one), nothing is appended, that session goes from Disconnected
\* to Connected and every other entry stays as it was.
C2_ReconnectReusesLowestIndex ==
    \A k \in DOMAIN call.hot :
        (Opened(call.hot[k])
            /\ DisconnectedWith(call.hot[k].before, call.hot[k].note.dev) # {}) =>
            LET h == call.hot[k]
                i == Min(DisconnectedWith(h.before, h.note.dev))
            IN  /\ h.ret = Some(i - 1, EvConnected)
                /\ ret = h.ret
                /\ Len(h.after) = Len(h.before)
                /\ h.before[i].status = Disconnected
                /\ h.after[i].status = Connected
                /\ h.after[i].uuid = h.before[i].uuid
                /\ \A j \in 1..Len(h.before) : j # i => h.after[j] = h.before[j]

\* C2 case: two sessions of one identity are both Disconnected when a device
\* of that identity is added, and the call returns a Connected event
C2_Witness ==
    \E k \in DOMAIN call.hot :
        /\ Opened(call.hot[k])
        /\ Cardinality(DisconnectedWith(call.hot[k].before, call.hot[k].note.dev)) = 2
        /\ ret.ev = EvConnected

\* C3: whenever an add notification opens a device while no session is
\* Disconnected with the identity of that device, the collection afterwards
\* is the one before with one Connected session appended, and the call
\* returns (length before, Connected).
C3_AddAppends ==
    \A k \in DOMAIN call.hot :
        (Opened(call.hot[k])
            /\ DisconnectedWith(call.hot[k].before, call.hot[k].note.dev) = {}) =>
            LET h == call.hot[k]
            IN  /\ Len(h.after) = Len(h.before) + 1
                /\ SubSeq(h.after, 1, Len(h.before)) = h.before
                /\ h.after[Len(h.after)].status = Connected
                /\ h.after[Len(h.after)].uuid = create_uuid(h.note.dev.iid)
                /\ h.ret = Some(Len(h.before), EvConnected)
                /\ ret = h.ret

\* C3 case: a device is added whose identity a session has that is still
\* Connected, and a second session is appended for it
C3_Witness ==
    \E k \in DOMAIN call.hot :
        /\ Opened(call.hot[k])
        /\ \E i \in 1..Len(call.hot[k].before) :
              /\ call.hot[k].before[i].uuid = create_uuid(call.hot[k].note.dev.iid)
              /\ call.hot[k].before[i].status = Connected
        /\ Len(call.hot[k].after) = Len(call.hot[k].before) + 1
        /\ ret = Some(Len(call.hot[k].before), EvConnected)

\* the Connected sessions of gps whose device path is p
ConnectedAt(gps, p) ==
    {i \in 1..Len(gps) : gps[i].status = Connected /\ gps[i].devpath = p}

\* C4: a remove notification for path p, when no Connected session has path
\* p, returns no event and leaves every session and descriptor as it was;
\* otherwise exactly one Connected session with path p becomes Disconnected,
\* its descriptor is closed, its path cleared, its index is returned with
\* Disconnected, and every other entry stays as it was.
C4_RemoveDisconnectsOne ==
    \A k \in DOMAIN call.hot :
        (call.hot[k].note.joy /\ call.hot[k].note.action = "remove") =>
            LET h == call.hot[k]
                hits == ConnectedAt(h.before, h.note.path)
            IN  IF hits = {}
                THEN /\ h.ret = NoItem
                     /\ h.after = h.before
                     /\ h.handlesAfter = h.handlesBefore
                ELSE \E i \in hits :
                        /\ h.ret = Some(i - 1, EvDisconnected)
                        /\ ret = h.ret
                        /\ Len(h.after) = Len(h.before)
                        /\ h.after[i].status = Disconnected
                        /\ h.after[i].devpath = ""
                        /\ h.after[i].fd < 0
                        /\ h.before[i].fd \in h.handlesBefore.open
                        /\ h.handlesAfter.open = h.handlesBefore.open \ {h.before[i].fd}
                        /\ \A j \in 1..Len(h.before) : j # i => h.after[j] = h.before[j]

\* C4 case: one call handles a remove for a path no Connected session has,
\* which yields nothing, and then a remove that disconnects a session
C4_Witness ==
    /\ Len(call.hot) = 2
    /\ call.hot[1].note.action = "remove"
    /\ call.hot[1].before # <<>>
    /\ call.hot[1].ret = NoItem
    /\ call.hot[2].note.action = "remove"
    /\ call.hot[2].ret.ev = EvDisconnected

\* C8: every entry of the collection is Connected or Disconnected, and
\* gamepad(id) is the entry at id when id is inside the collection and the
\* sentinel, whose status is NotObserved, when it is not.
C8_NotObservedIsOnlyTheSentinel ==
    /\ \A i \in 1..Len(gamepads) : gamepads[i].status \in {Connected, Disconnected}
    /\ \A id \in 0..(Len(gamepads) + 1) :
          IF id < Len(gamepads)
          THEN gamepad(gamepads, id) = gamepads[id + 1]
          ELSE /\ gamepad(gamepads, id) = not_observed
               /\ gamepad(gamepads, id).status = NotObserved

\* C8 case: a collection of two sessions, one of them Disconnected, is asked
\* for the ids 1 and 2
C8_Witness ==
    /\ Len(gamepads) = 2
    /\ gamepads[1].status = Disconnected
    /\ gamepad(gamepads, 1).status = Connected
    /\ gamepad(gamepads, 2).status = NotObserved

\* the descriptors the sessions of gps hold
Held(gps) == {gps[i].fd : i \in {j \in 1..Len(gps) : gps[j].fd >= 0}}

\* C10: no descriptor is closed twice and none that a session was opened with
\* stays open past that session: close is never called on a descriptor that
\* is not open, the descriptors opened for sessions and not yet closed are
\* exactly those the sessions hold, no two sessions hold the same one, and
\* none is left once the Gilrs value has been dropped.
C10_HandleClosedExactlyOnce ==
    /\ ~handles.bad
    /\ handles.owned = Held(gamepads)
    /\ handles.owned \subseteq handles.open
    /\ \A i, j \in 1..Len(gamepads) :
          (i # j /\ gamepads[i].fd >= 0) => gamepads[i].fd # gamepads[j].fd
    /\ \A k \in DOMAIN call.hot :
          /\ call.hot[k].handlesAfter.owned = Held(call.hot[k].after)
          /\ ~call.hot[k].handlesAfter.bad
    /\ ~alive => handles.owned = {}

\* C10 case: a session that disconnect() had closed is replaced in place by
\* one opened on the descriptor number the old one had, and that descriptor
\* is open and held once
C10_Witness ==
    \E k \in DOMAIN call.hot :
        /\ call.hot[k].ret.ev = EvConnected
        /\ Len(call.hot[k].after) = Len(call.hot[k].before)
        /\ call.hot[k].before[call.hot[k].ret.id + 1].fd = -2
        /\ call.hot[k].after[call.hot[k].ret.id + 1].fd \in handles.owned
        /\ Cardinality(handles.open) = 1

----------------------------------------------------------------------------
(* Properties of polling (SpecPoll). *)

\* C5: in every call, a notification that yields an event is the last one
\* the call handles and its event is what the call returns; the call then
\* calls no session's decode step, reads no record, and leaves the unread
\* records of every other session where they were.
C5_HotplugBeforeDeviceData ==
    [][\A k \in DOMAIN call'.hot :
          call'.hot[k].ret # NoItem =>
              /\ ret' = call'.hot[k].ret
              /\ ret'.ev \in {EvConnected, EvDisconnected}
              /\ k = Len(call'.hot)
              /\ call'.called = {}
              /\ call'.dlog = <<>>
              /\ \A i \in 1..Len(unread) : i # ret'.id + 1 => unread'[i] = unread[i]]_vars

\* C5 case: the call returned a Disconnected event while a Connected session
\* has a record waiting
C5_Witness ==
    /\ ret.ev = EvDisconnected
    /\ \E i \in 1..Len(gamepads) :
          gamepads[i].status = Connected /\ unread[i] # <<>>

\* the events of buttons and axes
IsDeviceEvent(ev) == ev.t \in {"ButtonPressed", "ButtonReleased", "AxisChanged"}

\* C6: a button or axis event is returned only for a session that is
\* Connected and whose last hotplug event, if it had one, was not
\* Disconnected; and the decode step is called only on Connected sessions.
C6_OnlyConnectedSessionsAreRead ==
    /\ IsDeviceEvent(ret.ev) =>
          /\ ret.id < Len(gamepads)
          /\ gamepads[ret.id + 1].status = Connected
          /\ lastev[ret.id + 1] # "Disconnected"
    /\ \A id \in call.called :
          id < Len(gamepads) /\ gamepads[id + 1].status = Connected

\* C6 case: the scan passed over session 0, which a remove had disconnected,
\* and returned an axis event of session 1
C6_Witness ==
    /\ ret.ev.t = "AxisChanged"
    /\ ret.id = 1
    /\ gamepads[1].status = Disconnected
    /\ lastev[1] = "Disconnected"
    /\ call.called = {1}

\* two f32 values are the same value: equal, or both NaN
SameValue(a, b) == FEq(a, b) \/ (IsNaN(a) /\ IsNaN(b))

\* C7: an AxisChanged(axis, v) event is never returned for a session whose
\* cache holds v for that axis when the call starts, and after it is
\* returned the cache holds v; so two AxisChanged events in a row for one
\* session and axis never carry the same value.
C7_NoRepeatedAxisValue ==
    [][ret'.ev.t = "AxisChanged" =>
          /\ ~SameValue(axis_val(gamepads[ret'.id + 1], ret'.ev.c), ret'.ev.v)
          /\ SameValue(axis_val(gamepads'[ret'.id + 1], ret'.ev.c), ret'.ev.v)]_vars

----------------------------------------------------------------------------
(* Properties of the decode step (SpecDecode). *)

\* the hat axis, 1 for ABS_HAT0X and 2 for ABS_HAT0Y, that entry e of the
\* history of reads is a record of; 0 when it is of neither
HatOf(e) ==
    IF e.rec.type # EV_ABS THEN 0
    ELSE IF map(gamepads[e.id + 1].mapping, e.rec.code, "Axis") = ABS_HAT0X THEN 1
    ELSE IF map(gamepads[e.id + 1].mapping, e.rec.code, "Axis") = ABS_HAT0Y THEN 2
    ELSE 0

\* the button of the positive direction of a hat axis
PositiveOf(hat) == IF hat = 1 THEN DPadRight ELSE DPadDown

\* C9: a record with a positive value on a hat axis whose stored previous
\* value is 0 yields ButtonPressed of the positive direction, and a record
\* with value 0 that follows it on that axis yields ButtonReleased of that
\* same button.
C9_HatPressThenRelease ==
    \A k \in DOMAIN call.dlog :
        HatOf(call.dlog[k]) # 0 =>
            LET e == call.dlog[k]
                hat == HatOf(e)
            IN  /\ (e.rec.value > 0 /\ e.prev[hat] = 0) =>
                      e.ev = ButtonPressed(PositiveOf(hat))
                /\ (e.rec.value = 0 /\ e.hat0[hat]) =>
                      e.ev = ButtonReleased(PositiveOf(hat))

----------------------------------------------------------------------------
(* Properties of polling where reads can come back short (SpecFault). *)

\* C11: no call of next() reaches unreachable!(): whatever byte counts the
\* reads return and whatever notifications arrive, the process has not
\* faulted.
C11_PollingNeverFaults == ~fault

----------------------------------------------------------------------------
(* Properties of parse_sdl_mapping (SpecParse). *)

\* the call of parse_sdl_mapping has returned
Parsed == applied.fn = "parse_sdl_mapping" /\ applied.done

\* it returned Ok(mapping)
Accepted == Parsed /\ applied.res.kind = "Ok"

\* the fields after the name of a line
FieldsOf(line) ==
    IF Len(split(line, ",")) < 2 THEN <<>> ELSE Tail(Tail(split(line, ",")))

\* the pair one field declares on a device, if its value resolves: the table
\* it belongs to, the raw code r of the value and the canonical code c of the
\* key
Declared(field, buttons, axes) ==
    LET pair == split(field, ":")
        key == pair[1]
    IN  IF Len(pair) < 2 \/ pair[2] = "" THEN {}
        ELSE IF key \in DOMAIN BtnKeys
        THEN {[kind |-> "Button", r |-> g.val, c |-> BtnKeys[key]] :
                g \in {x \in {get_btn(pair[2], buttons)} : x.kind = "Ok"}}
        ELSE IF key \in DOMAIN AxisKeys
        THEN {[kind |-> "Axis", r |-> g.val, c |-> AxisKeys[key]] :
                g \in {x \in {get_axis(pair[2], axes)} : x.kind = "Ok"}}
        ELSE IF key \in DOMAIN EitherKeys
        THEN {[kind |-> g.table, r |-> g.r.val,
               c |-> IF g.table = "Button" THEN EitherKeys[key][1] ELSE EitherKeys[key][2]] :
                g \in {x \in {get_btn_or_axis(pair[2], buttons, axes)} : x.r.kind = "Ok"}}
        ELSE {}

\* the pairs the line given to the parser declares
DeclaredPairs ==
    UNION {Declared(FieldsOf(applied.arg[1])[i], applied.arg[2], applied.arg[3]) :
             i \in 1..Len(FieldsOf(applied.arg[1]))}

\* no other pair of the line gives, in the table of p, another canonical code
\* to the raw code of p or another raw code to the canonical code of p
Unambiguous(p) ==
    \A q \in DeclaredPairs : q.kind = p.kind => (q.r = p.r <=> q.c = p.c)

\* map and map_rev of the returned Mapping take the pair p both ways
RoundTrips(p) ==
    /\ map(applied.res.mapping, p.r, p.kind) = p.c
    /\ map_rev(applied.res.mapping, p.c, p.kind) = p.r

\* C12 as stated: in every accepted definition every declared pair is taken
\* both ways by the Mapping, whatever other pairs the definition declares.
C12_EveryPairRoundTrips ==
    Accepted => \A p \in DeclaredPairs : RoundTrips(p)

\* C12: in every accepted definition, map takes r to c and map_rev takes c to
\* r, in the table of the pair, for every declared pair (r, c) that no other
\* pair of the definition contradicts, i.e. no other pair of the same table
\* has the same raw code with another canonical code or the same canonical
\* code with another raw code.
C12_UnambiguousPairsRoundTrip ==
    Accepted => \A p \in DeclaredPairs : Unambiguous(p) => RoundTrips(p)

\* an accepted definition with two pairs of different raw codes in one table,
\* and one pair more in the other table of a key that takes either
C12_Witness ==
    /\ Accepted
    /\ \E p, q \in DeclaredPairs :
         /\ p.kind = q.kind /\ p.r # q.r /\ p.r # p.c
         /\ Unambiguous(p) /\ Unambiguous(q)
    /\ \E p \in DeclaredPairs : p.c \in {BTN_TL, ABS_HAT1Y, ABS_HAT0X, ABS_HAT0Y}

\* the field is a platform field whose value is a name other than that of
\* the running platform
ForeignPlatform(field) ==
    /\ Len(split(field, ":")) >= 2
    /\ split(field, ":")[1] = "platform"
    /\ split(field, ":")[2] \notin {"", PlatformName}

\* C13: whenever the line holds a platform field naming another platform,
\* wherever it stands and whatever the other fields hold, the parser returns
\* the error NotTargetPlatform: no other error, no Mapping.
C13_ForeignPlatformIsNotTargetPlatform ==
    (Parsed /\ \E i \in 1..Len(FieldsOf(applied.arg[1])) :
                  ForeignPlatform(FieldsOf(applied.arg[1])[i]))
        => applied.res.kind = "Err" /\ applied.res.err = "NotTargetPlatform"

\* the field has a key that takes a button or an axis and a well-formed value
\* b<N> or a<N> whose index N the device lacks
LacksIndex(field, buttons, axes) ==
    LET pair == split(field, ":")
    IN  /\ Len(pair) >= 2
        /\ pair[1] \in DOMAIN EitherKeys
        /\ pair[2] # ""
        /\ parse(Tail(pair[2]), MaxIndex) # NoNumber
        /\ \/ Head(pair[2]) = "b" /\ parse(Tail(pair[2]), MaxIndex) >= Len(buttons)
           \/ Head(pair[2]) = "a" /\ parse(Tail(pair[2]), MaxIndex) >= Len(axes)

\* C14: a line whose fields all resolve on the device, but for button-or-axis
\* keys whose value b<N> or a<N> names an index the device lacks, is accepted:
\* those fields are skipped, on the button branch as on the axis branch.
C14_MissingIndexIsSkipped ==
    (/\ Parsed
     /\ \E i \in 1..Len(FieldsOf(applied.arg[1])) :
          LacksIndex(FieldsOf(applied.arg[1])[i], applied.arg[2], applied.arg[3])
     /\ \A i \in 1..Len(FieldsOf(applied.arg[1])) :
          \/ LacksIndex(FieldsOf(applied.arg[1])[i], applied.arg[2], applied.arg[3])
          \/ Declared(FieldsOf(applied.arg[1])[i], applied.arg[2], applied.arg[3]) # {})
        => applied.res.kind = "Ok"

\* C20: a field after the name that holds some text but no ':' makes the
\* parser return the error InvalidPair.
C20_FieldWithoutColonIsInvalidPair ==
    (Parsed /\ \E i \in 1..Len(FieldsOf(applied.arg[1])) :
                  /\ FieldsOf(applied.arg[1])[i] # ""
                  /\ Len(split(FieldsOf(applied.arg[1])[i], ":")) = 1)
        => applied.res.kind = "Err" /\ applied.res.err = "InvalidPair"

----------------------------------------------------------------------------
(* Properties of the mapping database (SpecDb). *)

\* MappingDb::new has returned
Built == applied.fn = "MappingDb::new" /\ applied.done

\* the identity a line is ingested under
IdentityOf(line) == Uuid_parse_str(split(line, ",")[1])

\* the lines of a dataset ingested under identity u, in the order of the text
RECURSIVE LinesWith(_, _)
LinesWith(ls, u) ==
    IF ls = <<>> THEN <<>>
    ELSE IF IdentityOf(Head(ls)) = u THEN <<Head(ls)>> \o LinesWith(Tail(ls), u)
    ELSE LinesWith(Tail(ls), u)

BundledWith(u) == LinesWith(lines(applied.arg[1]), u)
OverrideWith(u) ==
    IF applied.arg[2].ok THEN LinesWith(lines(applied.arg[2].text), u) ELSE <<>>

\* the identities of the lines of DbLines
Identities == {IdentityOf(l) : l \in DbLines} \ {NoUuid}

\* C15: in the database built from the bundled dataset and then the
\* override, an identity resolves to the last line of the override that has
\* it, else to the last line of the bundled dataset that has it, else to
\* nothing.
C15_LastIngestedLineWins ==
    Built => \A u \in Identities :
        MappingDb_get(applied.res, u) =
            IF OverrideWith(u) # <<>>
            THEN [some |-> TRUE, line |-> OverrideWith(u)[Len(OverrideWith(u))]]
            ELSE IF BundledWith(u) # <<>>
            THEN [some |-> TRUE, line |-> BundledWith(u)[Len(BundledWith(u))]]
            ELSE NoLine

\* a database where one identity has a bundled line and another override
\* line, and another identity has a bundled line only
C15_Witness ==
    /\ Built
    /\ \E u, v \in Identities :
         /\ u # v
         /\ BundledWith(u) # <<>> /\ OverrideWith(u) # <<>>
         /\ BundledWith(u)[1] # OverrideWith(u)[1]
         /\ MappingDb_get(applied.res, u).line = OverrideWith(u)[1]
         /\ BundledWith(v) # <<>> /\ OverrideWith(v) = <<>>
         /\ MappingDb_get(applied.res, v).some

----------------------------------------------------------------------------
(* Properties of axis_value (SpecAxis). *)

\* axis_value has returned
Normalised == applied.fn = "axis_value" /\ applied.done

\* the raw value given to axis_value lies in the range of the calibration
InRange == applied.arg[1].minimum <= applied.arg[2] /\ applied.arg[2] <= applied.arg[1].maximum

\* the raw value after the recentring of axis_value, which is done for a
\* stick whose range starts at 0
Recentred ==
    IF is_stick(applied.arg[3]) /\ applied.arg[1].minimum = 0
    THEN applied.arg[2] - TruncDiv(applied.arg[1].maximum, 2)
    ELSE applied.arg[2]

\* C16: for every axis kind and calibration, a raw value inside the range of
\* the calibration gives a result of magnitude at most 1, whenever the
\* divisor is not zero.
C16_ResultWithinUnitRange ==
    (Normalised /\ InRange /\ applied.res.d # 0)
        => Abs(applied.res.n) <= Abs(applied.res.d)

\* C17: for every axis kind and calibration, a raw value inside the range
\* whose recentred magnitude is at most the dead-zone width gives exactly
\* zero: the numerator is 0 and the divisor is not.
C17_DeadZoneIsZero ==
    (Normalised /\ InRange /\ Abs(Recentred) <= applied.arg[1].flat)
        => applied.res.n = 0 /\ applied.res.d # 0

----------------------------------------------------------------------------
(* Properties of create_uuid (SpecUuid). *)

\* create_uuid has returned
Created == applied.fn = "create_uuid" /\ applied.done

\* the SDL GUID of an input_id: each field low byte first, then two zero bytes
SdlGuid(iid) ==
    << iid.bustype % 256, iid.bustype \div 256, 0, 0,
       iid.vendor % 256, iid.vendor \div 256, 0, 0,
       iid.product % 256, iid.product \div 256, 0, 0,
       iid.version % 256, iid.version \div 256, 0, 0 >>

\* the input_id of tests::sdl_uuid and the text it is compared with
TestId == InputId(3, 1118, 654, 8224)
TestGuid == "030000005e0400008e02000020200000"

\* C18: the Identity of an input_id is its SDL GUID, the one of the test is
\* the Uuid of the text the test gives, and every input_id that differs in a
\* field has another Identity.
C18_IdentityIsTheSdlGuid ==
    Created =>
        /\ applied.res = SdlGuid(applied.arg[1])
        /\ applied.arg[1] = TestId => applied.res = Uuid_parse_str(TestGuid)
        /\ \A other \in InputIds :
              other # applied.arg[1] => create_uuid(other) # applied.res

\* the Identity of the input_id of the test has been made, and that of an
\* input_id that differs from it in the version only is another
C18_Witness ==
    /\ Created
    /\ applied.arg[1] = TestId
    /\ applied.res = Uuid_parse_str(TestGuid)
    /\ create_uuid([TestId EXCEPT !.version = 0]) # applied.res

----------------------------------------------------------------------------
(* Properties of Gamepad::open (SpecOpen). *)

\* Gamepad::open has been called
OpenCalled == applied.fn = "Gamepad::open" /\ applied.done

\* what the database of the call holds for the Identity of the device
DefinitionOf ==
    MappingDb_get(MappingDb_new(applied.arg[2], applied.arg[3]),
                  create_uuid(applied.arg[1].dev.iid))

\* the parse of that definition on the buttons and axes of the device
ParseOfDefinition ==
    parse_sdl_mapping(DefinitionOf.line, Ascending(applied.arg[1].dev.keys),
                      Ascending(DOMAIN applied.arg[1].dev.abs))

\* the same call for a device that has no mapping
OpenUnmapped == open_in(applied.arg[1], NoHandles, EmptyDb)

\* C19: no call of open fails because of the mapping: none panics, a device
\* that is accepted without a mapping is accepted with whatever the database
\* holds, and when the database holds no definition for the Identity, or one
\* that parse_sdl_mapping returns an error for, the result is the one the
\* device gives without a mapping: the empty Mapping, the hardware name, the
\* same acceptance.
C19_MappingNeverFailsOpen ==
    OpenCalled =>
        /\ ~applied.res.panic
        /\ OpenUnmapped.ok => applied.res.ok
        /\ (~DefinitionOf.some \/ ParseOfDefinition.kind = "Err")
              => applied.res = OpenUnmapped

----------------------------------------------------------------------------
(* Well-formed definitions (SpecParse). *)

\* the text is a decimal numeral
Numeral(s) == s # "" /\ \A i \in 1..Len(s) : SubSeq(s, i, i) \in DOMAIN Digit

\* the value is b<N> with a button N of the device
ButtonValue(val, buttons) ==
    /\ Len(val) >= 2 /\ Head(val) = "b" /\ Numeral(Tail(val))
    /\ parse(Tail(val), MaxIndex) \in 0..(Len(buttons) - 1)

\* the value is a<N> with an axis N of the device, or a direction of hat 0
AxisValue(val, axes) ==
    \/ /\ Len(val) >= 2 /\ Head(val) = "a" /\ Numeral(Tail(val))
       /\ parse(Tail(val), MaxIndex) \in 0..(Len(axes) - 1)
    \/ val \in {"h0.1", "h0.2", "h0.4", "h0.8"}

\* the field is empty, names the running platform, or has a recognized key
\* with a well-formed value of the kind the key accepts
WellFormed(field, buttons, axes) ==
    \/ field = ""
    \/ field = "platform:" \o PlatformName
    \/ \E key \in DOMAIN BtnKeys \cup DOMAIN AxisKeys \cup DOMAIN EitherKeys :
         /\ Len(field) > Len(key) + 1
         /\ SubSeq(field, 1, Len(key) + 1) = key \o ":"
         /\ LET val == SubSeq(field, Len(key) + 2, Len(field))
            IN  \/ key \notin DOMAIN AxisKeys /\ ButtonValue(val, buttons)
                \/ key \notin DOMAIN BtnKeys /\ AxisValue(val, axes)

\* the line has a GUID field and a name field, and only well-formed fields
WellFormedLine ==
    /\ Len(split(applied.arg[1], ",")) >= 2
    /\ \A i \in 1..Len(FieldsOf(applied.arg[1])) :
         WellFormed(FieldsOf(applied.arg[1])[i], applied.arg[2], applied.arg[3])

\* C21: a definition with a GUID field, a name field and only well-formed
\* fields (recognized keys with values b<N>, a<N> or h0.1, h0.2, h0.4, h0.8 of
\* the kind the key accepts and indices the device has, the running platform,
\* empty fields) is accepted, and the name of the Mapping is its second field.
C21_WellFormedDefinitionIsAccepted ==
    (Parsed /\ WellFormedLine)
        => /\ applied.res.kind = "Ok"
           /\ applied.res.mapping.name = split(applied.arg[1], ",")[2]

\* the line of the test, with its 12 buttons and 8 axes and its trailing
\* empty field, is accepted under the name it gives
C21_Witness ==
    /\ Parsed /\ WellFormedLine
    /\ applied.arg = <<TEST_STR, BUTTONS, AXES>>
    /\ FieldsOf(TEST_STR)[Len(FieldsOf(TEST_STR))] = ""
    /\ applied.res.kind = "Ok"
    /\ applied.res.mapping.name = "GameCube {WiseGroup USB box}"
    /\ map(applied.res.mapping, 6, "Button") = BTN_TR
    /\ map(applied.res.mapping, 5, "Axis") = ABS_HAT2X

\* the keys the match of parse_sdl_mapping has an arm for
RecognizedKeys ==
    {"platform"} \cup DOMAIN BtnKeys \cup DOMAIN AxisKeys \cup DOMAIN EitherKeys

\* the field has a key and a value, and the key is not recognized
UnrecognizedKey(field) ==
    /\ Len(split(field, ":")) >= 2
    /\ split(field, ":")[2] # ""
    /\ split(field, ":")[1] \notin RecognizedKeys

\* the field has a recognized key and an empty value
EmptyValue(field) ==
    /\ Len(split(field, ":")) >= 2
    /\ split(field, ":")[2] = ""
    /\ split(field, ":")[1] \in RecognizedKeys

\* the line without its i-th field after the name
WithoutField(line, i) ==
    LET parts == split(line, ",")
    IN  parts[1] \o Commas(SubSeq(parts, 2, i + 1) \o SubSeq(parts, i + 3, Len(parts)))

\* C22: a field with an unrecognized key and any value, or with a recognized
\* key and an empty value, does not change what parse_sdl_mapping returns:
\* the line gives the same Mapping or the same error as the line without it.
C22_IgnoredFieldChangesNothing ==
    Parsed =>
      \A i \in 1..Len(FieldsOf(applied.arg[1])) :
        (UnrecognizedKey(FieldsOf(applied.arg[1])[i]) \/ EmptyValue(FieldsOf(applied.arg[1])[i]))
          => applied.res = parse_sdl_mapping(WithoutField(applied.arg[1], i),
                                             applied.arg[2], applied.arg[3])

\* an accepted line with a pair in a table, before a field of an unrecognized
\* key whose value no recognized key would take
C22_Witness ==
    /\ Accepted
    /\ Len(FieldsOf(applied.arg[1])) = 2
    /\ UnrecognizedKey(FieldsOf(applied.arg[1])[2])
    /\ split(FieldsOf(applied.arg[1])[2], ":")[2] = "é0"
    /\ DeclaredPairs # {}
    /\ \A pr \in DeclaredPairs : RoundTrips(pr)
    /\ applied.res = parse_sdl_mapping(WithoutField(applied.arg[1], 2),
                                       applied.arg[2], applied.arg[3])

----------------------------------------------------------------------------
(* Rejections of Gamepad::open (SpecOpen). *)

\* open returned None after c::open had given it a descriptor
RejectedAfterOpen ==
    /\ OpenCalled
    /\ ~applied.res.ok /\ ~applied.res.panic
    /\ applied.arg[1].path # NoPath /\ applied.arg[1].io # "open"

\* C23: when open rejects a device after c::open succeeded (a capability,
\* name or identity query fails, or the marker button is absent), it has
\* closed the descriptor, once: none is left open and none was closed twice.
C23_RejectedOpenClosesItsHandle ==
    RejectedAfterOpen => applied.res.handles.open = {} /\ ~applied.res.handles.bad

----------------------------------------------------------------------------
(* Notifications that are passed over (SpecReject). *)

\* the device lacks the button the marker is reverse-resolved to
MarkerAbsent(dev) ==
    map_rev(ResolveMapping(BundledDb, create_uuid(dev.iid), Ascending(dev.keys),
                           Ascending(DOMAIN dev.abs)).mapping,
            BTN_GAMEPAD, "Button") \notin dev.keys

\* the notification is not for a joystick-class device, or is an add whose
\* open is rejected: no node, a failing system call, no marker button
PassedOver(n) ==
    \/ ~n.joy
    \/ /\ n.action = "add"
       /\ (n.path = NoPath \/ n.io # "ok" \/ MarkerAbsent(n.dev))

\* C24: a notification for a device that is not joystick-class, and an add
\* whose open is rejected, return no event and leave every session of the
\* collection as it was; the same call then handles the next pending
\* notification, so it ends there only when none is pending.
C24_RejectedNotificationIsPassedOver ==
    \A k \in DOMAIN call.hot :
        PassedOver(call.hot[k].note) =>
            /\ call.hot[k].ret = NoItem
            /\ call.hot[k].after = call.hot[k].before
            /\ IF k < Len(call.hot)
               THEN call.hot[k + 1].before = call.hot[k].after
               ELSE monitor = <<>>

\* one call passes over a device without the marker button while a session
\* is connected, and returns the event of the notification that follows it
C24_Witness ==
    /\ Len(call.hot) = 2
    /\ call.hot[1].note.dev = Stick /\ call.hot[1].note.joy
    /\ call.hot[1].note.action = "add"
    /\ Len(call.hot[1].before) = 1 /\ call.hot[1].before[1].status = Connected
    /\ call.hot[1].after = call.hot[1].before
    /\ call.hot[2].ret = Some(0, EvDisconnected)
    /\ ret = Some(0, EvDisconnected)

----------------------------------------------------------------------------
(* Properties of Gamepad::event (SpecEvent). *)

\* Gamepad::event has been called
EventCalled == applied.fn = "Gamepad::event" /\ applied.res.calls > 0

\* what the session has stored for the hat axis of record i of q when it
\* reads it: the value of the record of that axis before it, as i16, else 0
StoredHat(gp, q, i) ==
    LET before == {j \in 1..(i - 1) :
                      /\ q[j].type = EV_ABS
                      /\ map(gp.mapping, q[j].code, "Axis") = map(gp.mapping, q[i].code, "Axis")}
    IN  IF before = {} THEN 0
        ELSE AsI16(q[CHOOSE j \in before : \A k \in before : k <= j].value)

\* record i of q is of a kind that yields no event on session gp: a type that
\* is neither EV_KEY nor EV_ABS, a button or axis code no canonical code
\* stands for, a button value other than 0 and 1, a hat value 0 while the
\* stored previous value is 0
YieldsNoEvent(gp, q, i) ==
    \/ q[i].type \notin {EV_KEY, EV_ABS}
    \/ /\ q[i].type = EV_KEY
       /\ \/ ButtonFromU16(map(gp.mapping, q[i].code, "Button")) = NoCode
          \/ q[i].value \notin {0, 1}
    \/ /\ q[i].type = EV_ABS
       /\ \/ /\ map(gp.mapping, q[i].code, "Axis") \notin {ABS_HAT0X, ABS_HAT0Y}
             /\ AxisFromU16(map(gp.mapping, q[i].code, "Axis")) = NoCode
          \/ /\ map(gp.mapping, q[i].code, "Axis") \in {ABS_HAT0X, ABS_HAT0Y}
             /\ q[i].value = 0
             /\ StoredHat(gp, q, i) = 0

\* the positions of the records the calls have read
ReadSoFar == 1..(Len(applied.arg[2]) - Len(applied.res.q))

\* the positions of the records that produced the returned events
Producers == {applied.res.returned[k].at : k \in DOMAIN applied.res.returned}

\* C25: event() returns None only when no record is left to read: the records
\* that yield no event are read and passed over in the call that meets them,
\* and the events of successive calls come from records in the order the
\* device delivered them, each from the record its call read last.
C25_NoneOnlyWhenNothingIsLeft ==
    EventCalled =>
        /\ applied.res.last = None => applied.res.q = <<>>
        /\ applied.res.last # None =>
              applied.res.returned[Len(applied.res.returned)].at = Cardinality(ReadSoFar)
        /\ \A k \in DOMAIN applied.res.returned :
              /\ k > 1 => applied.res.returned[k - 1].at < applied.res.returned[k].at
              /\ ~YieldsNoEvent(applied.arg[1], applied.arg[2], applied.res.returned[k].at)
        /\ \A i \in ReadSoFar \ Producers : YieldsNoEvent(applied.arg[1], applied.arg[2], i)

\* two calls have returned an event each, the second after passing over a
\* record of unknown type that stood between their records, and a third has
\* returned None with nothing left to read
C25_Witness ==
    /\ EventCalled
    /\ applied.res.calls = 3 /\ applied.res.last = None
    /\ Producers = {1, 3}
    /\ Len(applied.arg[2]) = 3
    /\ applied.arg[2][2].type \notin {EV_KEY, EV_ABS}
    /\ applied.res.returned[1].ev = ButtonPressed(BTN_SOUTH)

----------------------------------------------------------------------------
(* Draining what is pending (SpecDrainFair). *)

\* no notification is pending and no Connected session has a record to read
Drained ==
    /\ monitor = <<>>
    /\ \A i \in 1..Len(gamepads) : gamepads[i].status = Connected => unread[i] = <<>>

\* entry e of the records a call read gave no event, or an axis value equal
\* to the one cached in gps when the call began, which the iterator filters
\* out
NotReturned(e, gps) ==
    \/ e.ev = None
    \/ /\ e.ev.t = "AxisChanged"
       /\ FEq(axis_val(gps[e.id + 1], e.ev.c), e.ev.v)

\* a call returns what the last notification it handled gave or, when that
\* is nothing, what the last record it read gave; the notifications and
\* records before those gave nothing that is returned
ReturnsWhatIsPending ==
    [][/\ monitor' = SubSeq(monitor, Len(call'.hot) + 1, Len(monitor))
       /\ \A k \in DOMAIN call'.hot :
            /\ call'.hot[k].note = monitor[k]
            /\ k < Len(call'.hot) => call'.hot[k].ret = NoItem
       /\ (call'.hot # <<>> /\ call'.hot[Len(call'.hot)].ret # NoItem)
            => ret' = call'.hot[Len(call'.hot)].ret /\ call'.dlog = <<>>
       /\ \A k \in 1..(Len(call'.dlog) - 1) : NotReturned(call'.dlog[k], gamepads)
       /\ IsDeviceEvent(ret'.ev) =>
            /\ call'.dlog # <<>>
            /\ ret' = Some(call'.dlog[Len(call'.dlog)].id, call'.dlog[Len(call'.dlog)].ev)
       /\ ret' = NoItem =>
            /\ Drained'
            /\ cursor' = Len(gamepads')
            /\ \A k \in DOMAIN call'.dlog : NotReturned(call'.dlog[k], gamepads)]_vars

\* device events come in ascending order of the session index, after the
\* hotplug events
AscendingSessions ==
    [][(IsDeviceEvent(ret.ev) /\ ret' # NoItem)
          => IsDeviceEvent(ret'.ev) /\ ret'.id >= ret.id]_vars

\* C26: when nothing new arrives, repeated calls of next() on one iterator
\* return the result of each pending notification and each pending event of
\* the Connected sessions that is not filtered out, the device events in
\* ascending order of the session index, and then return None: the calls end
\* in a state where nothing is pending, the iterator is past the last session
\* and the call returned None.
C26_PendingIsDrainedThenNone ==
    /\ ReturnsWhatIsPending
    /\ AscendingSessions
    /\ <>[](ret = NoItem /\ Drained /\ cursor = Len(gamepads))

\* after a hotplug event and a device event were returned, a call has passed
\* over a filtered record of the second session and returned None
C26_Witness ==
    /\ ret = NoItem /\ Drained /\ cursor = Len(gamepads)
    /\ Len(gamepads) = 2
    /\ call.dlog # <<>>
    /\ \E i \in 1..2 : lastev[i] # "none"
    /\ \E i \in 1..2 : gamepads[i].btns # {} \/ gamepads[i].axes # <<>>

----------------------------------------------------------------------------
(* The status of a session and its handle (Spec). *)

\* C27: in every state of a living Gilrs, a session of the collection is
\* Connected exactly when it holds an open handle (fd >= 0, a descriptor
\* that is open) and a non-empty device path, and a Disconnected session has
\* the invalidated handle marker (fd < 0) and an empty device path.
C27_ConnectedIffHandleAndPath ==
    alive =>
      \A i \in 1..Len(gamepads) :
        /\ gamepads[i].status \in {Connected, Disconnected}
        /\ gamepads[i].status = Connected
              <=> (gamepads[i].fd >= 0 /\ gamepads[i].devpath # "")
        /\ gamepads[i].status = Connected => gamepads[i].fd \in handles.open
        /\ gamepads[i].status = Disconnected
              => (gamepads[i].fd < 0 /\ gamepads[i].devpath = "")

\* a session found by enumeration has been disconnected and another has
\* been connected by the call that just returned
C27_Witness ==
    /\ alive
    /\ ret.ev = EvConnected
    /\ \E i, j \in 1..Len(gamepads) :
          /\ gamepads[i].status = Disconnected /\ lastev[i] = "Disconnected"
          /\ gamepads[j].status = Connected /\ j = ret.id + 1

----------------------------------------------------------------------------
(* The hotplug events of one index (Spec). lastev holds, for each index, the *)
(* hotplug event returned last for it: none for a session of the initial    *)
(* enumeration that has had no event yet.                                   *)

\* C28: the Connected and Disconnected events returned for one index
\* alternate: the event a call returns for an index differs from the one
\* returned last for it, the first event of a session found by the initial
\* enumeration is Disconnected, and the first event of an index the
\* collection did not have is Connected.
C28_HotplugEventsAlternate ==
    [][ret'.ev \in {EvConnected, EvDisconnected} =>
         IF ret'.id < Len(lastev)
         THEN /\ lastev[ret'.id + 1] # ret'.ev.t
              /\ lastev[ret'.id + 1] = "none" => ret'.ev = EvDisconnected
         ELSE /\ ret'.ev = EvConnected
              /\ ret'.id = Len(gamepads)
              /\ Len(gamepads') = Len(gamepads) + 1]_vars

\* an index whose last event was Disconnected has just had Connected
\* returned for it, while another session, appended by an add, is Connected
C28_Witness ==
    /\ ret.ev = EvConnected
    /\ call.hot # <<>>
    /\ ret.id < Len(call.hot[Len(call.hot)].before)
    /\ call.hot[Len(call.hot)].before[ret.id + 1].status = Disconnected
    /\ lastev[ret.id + 1] = "Connected"
    /\ \E j \in 1..Len(gamepads) : j # ret.id + 1 /\ lastev[j] = "Connected"

----------------------------------------------------------------------------
(* The direction buttons of one hat axis (SpecDecode). *)

\* C29: the presses and releases synthesized for one hat axis are balanced,
\* so that the cached state of a session never has both direction buttons of
\* one hat axis pressed: not DPadRight with DPadLeft, not DPadDown with
\* DPadUp.
C29_OppositeDirectionsNeverBothPressed ==
    \A i \in 1..Len(gamepads) :
        /\ ~({DPadRight, DPadLeft} \subseteq gamepads[i].btns)
        /\ ~({DPadDown, DPadUp} \subseteq gamepads[i].btns)

----------------------------------------------------------------------------
(* Definitions of one Identity for several platforms (SpecOpen). *)

\* the lines of the datasets of the call, bundled text and override
IngestedLines ==
    {lines(applied.arg[2])[i] : i \in 1..Len(lines(applied.arg[2]))}
        \cup (IF applied.arg[3].ok
              THEN {lines(applied.arg[3].text)[i] : i \in 1..Len(lines(applied.arg[3].text))}
              ELSE {})

\* the lines among them whose first field is the Identity of the device
LinesOfDevice ==
    {l \in IngestedLines :
        Uuid_parse_str(split(l, ",")[1]) = create_uuid(applied.arg[1].dev.iid)}

\* the parse of line l on the buttons and axes of the device
ParseOnDevice(l) ==
    parse_sdl_mapping(l, Ascending(applied.arg[1].dev.keys),
                      Ascending(DOMAIN applied.arg[1].dev.abs))

\* the line is a definition for another platform
ForOtherPlatform(l) ==
    \E i \in 1..Len(FieldsOf(l)) : ForeignPlatform(FieldsOf(l)[i])

\* C30: when the datasets hold a line of the Identity of the device that
\* parses on this platform, and the other lines of that Identity are
\* definitions for other platforms, in whatever order, open gives what it
\* gives with that line alone in the database: the device is accepted or
\* not as its Mapping decides, and the session has its Mapping and name.
C30_PlatformDefinitionIsUsed ==
    OpenCalled =>
        \A l \in LinesOfDevice :
            (/\ ParseOnDevice(l).kind = "Ok"
             /\ \A o \in LinesOfDevice \ {l} : ForOtherPlatform(o))
                => applied.res = open_in(applied.arg[1], NoHandles, insert_to(l, EmptyDb))

----------------------------------------------------------------------------
(* The device paths of the Connected sessions (Spec). *)

\* C31: whatever add and remove notifications were handled, an add for the
\* path of a Connected session among them, no two Connected sessions of the
\* collection have the same device path.
C31_ConnectedPathsAreDistinct ==
    alive =>
        \A i, j \in 1..Len(gamepads) :
            (/\ i # j
             /\ gamepads[i].status = Connected
             /\ gamepads[j].status = Connected)
                => gamepads[i].devpath # gamepads[j].devpath

----------------------------------------------------------------------------
(* map after map_rev (SpecParse). *)

\* the canonical codes: those of the buttons and of the axes, hat 0 with them
CanonicalButtons == {c \in BTN_SOUTH..BTN_DPAD_RIGHT : ButtonFromU16(c) # NoCode}

CanonicalAxes ==
    {c \in ABS_X..ABS_HAT2Y : AxisFromU16(c) # NoCode} \cup {ABS_HAT0X, ABS_HAT0Y}

\* in Mapping m, the raw code map_rev gives for each canonical code is one
\* that map takes back to it, in the button table and in the axis table
MapUndoesMapRev(m) ==
    /\ \A c \in CanonicalButtons : map(m, map_rev(m, c, "Button"), "Button") = c
    /\ \A c \in CanonicalAxes : map(m, map_rev(m, c, "Axis"), "Axis") = c

\* C32: for the empty Mapping and for every Mapping parse_sdl_mapping
\* returns, map(map_rev(c)) = c for every canonical code c, in both tables.
C32_MapUndoesMapRev ==
    /\ MapUndoesMapRev(NewMapping)
    /\ Accepted => MapUndoesMapRev(applied.res.mapping)

====
